---- MODULE Spec2Model ----
(***************************************************************************)
(* A model of the mos65xx interpreter core: the fast CPU driver (Reset,    *)
(* IRQ, NMI, Ready, Attach, Step, Run), the address resolver, the          *)
(* instruction executors and the ALU primitives, over a RAM bus; and of    *)
(* the memory package's Mapper and ReaderAt.                               *)
(***************************************************************************)
EXTENDS Integers, Sequences, FiniteSets, TLC

\* ------------------------------------------------------------------------
\* Bounds of the model
\* ------------------------------------------------------------------------

\* Step is not taken once the cycle counter has reached this value.
MaxCycles == 18

\* ------------------------------------------------------------------------
\* Fixed-width integers and bitwise operators
\* ------------------------------------------------------------------------

\* The element of the one-element set S. Binding a name to the element of
\* {e} evaluates e once, where a LET name is evaluated at each use.
Only(S) == CHOOSE x \in S : TRUE

u8(x) == x % 256

u16(x) == x % 65536

RECURSIVE BitAnd(_, _, _)
BitAnd(a, b, n) ==
    IF n = 0 THEN 0
    ELSE (IF a % 2 = 1 /\ b % 2 = 1 THEN 1 ELSE 0) + 2 * BitAnd(a \div 2, b \div 2, n - 1)

AndNibble == [a \in 0..15 |-> [b \in 0..15 |-> BitAnd(a, b, 4)]]

RECURSIVE And(_, _)
And(a, b) ==
    Only({IF x = 0 \/ y = 0 THEN 0
          ELSE AndNibble[x % 16][y % 16] + 16 * And(x \div 16, y \div 16)
          : x \in {a}, y \in {b}})

Or(a, b) == Only({x + y - And(x, y) : x \in {a}, y \in {b}})

Xor(a, b) == Only({x + y - 2 * And(x, y) : x \in {a}, y \in {b}})

\* ^flag on a uint8
Not8(a) == 255 - a

\* v << n and v >> n on a uint8
Shl8(v, n) == (v * (2 ^ n)) % 256

Shr(v, n) == v \div (2 ^ n)

\* ------------------------------------------------------------------------
\* Constants of the program
\* ------------------------------------------------------------------------

C == 1
Z == 2
I == 4
D == 8
B == 16
U == 32
V == 64
N == 128

NMIVector == 65530
ResetVector == 65532
IRQVector == 65534

\* The Interrupt type
None == "None"
NMI == "NMI"
IRQ == "IRQ"

\* The opcode table, indexed by opcode byte + 1
opcodes == <<
  [Mnemonic |-> "BRK", Size |-> 1, Cycles |-> 7, PageCrossCycles |-> 0, Mode |-> "Implied"],
  [Mnemonic |-> "ORA", Size |-> 2, Cycles |-> 6, PageCrossCycles |-> 0, Mode |-> "IndexedIndirect"],
  [Mnemonic |-> "HLT", Size |-> 1, Cycles |-> 0, PageCrossCycles |-> 0, Mode |-> "Implied"],
  [Mnemonic |-> "SLO", Size |-> 2, Cycles |-> 8, PageCrossCycles |-> 0, Mode |-> "IndexedIndirect"],
  [Mnemonic |-> "NOP", Size |-> 2, Cycles |-> 3, PageCrossCycles |-> 0, Mode |-> "ZeroPage"],
  [Mnemonic |-> "ORA", Size |-> 2, Cycles |-> 3, PageCrossCycles |-> 0, Mode |-> "ZeroPage"],
  [Mnemonic |-> "ASL", Size |-> 2, Cycles |-> 5, PageCrossCycles |-> 0, Mode |-> "ZeroPage"],
  [Mnemonic |-> "SLO", Size |-> 2, Cycles |-> 5, PageCrossCycles |-> 0, Mode |-> "ZeroPage"],
  [Mnemonic |-> "PHP", Size |-> 1, Cycles |-> 3, PageCrossCycles |-> 0, Mode |-> "Implied"],
  [Mnemonic |-> "ORA", Size |-> 2, Cycles |-> 2, PageCrossCycles |-> 0, Mode |-> "Immediate"],
  [Mnemonic |-> "ASL", Size |-> 1, Cycles |-> 2, PageCrossCycles |-> 0, Mode |-> "Accumulator"],
  [Mnemonic |-> "ANC", Size |-> 2, Cycles |-> 2, PageCrossCycles |-> 0, Mode |-> "Immediate"],
  [Mnemonic |-> "NOP", Size |-> 3, Cycles |-> 4, PageCrossCycles |-> 0, Mode |-> "Absolute"],
  [Mnemonic |-> "ORA", Size |-> 3, Cycles |-> 4, PageCrossCycles |-> 0, Mode |-> "Absolute"],
  [Mnemonic |-> "ASL", Size |-> 3, Cycles |-> 6, PageCrossCycles |-> 0, Mode |-> "Absolute"],
  [Mnemonic |-> "SLO", Size |-> 3, Cycles |-> 6, PageCrossCycles |-> 0, Mode |-> "Absolute"],
  [Mnemonic |-> "BPL", Size |-> 2, Cycles |-> 2, PageCrossCycles |-> 0, Mode |-> "Relative"],
  [Mnemonic |-> "ORA", Size |-> 2, Cycles |-> 5, PageCrossCycles |-> 1, Mode |-> "IndirectIndexed"],
  [Mnemonic |-> "HLT", Size |-> 1, Cycles |-> 0, PageCrossCycles |-> 0, Mode |-> "Implied"],
  [Mnemonic |-> "SLO", Size |-> 2, Cycles |-> 8, PageCrossCycles |-> 0, Mode |-> "IndirectIndexed"],
  [Mnemonic |-> "NOP", Size |-> 2, Cycles |-> 4, PageCrossCycles |-> 0, Mode |-> "ZeroPageX"],
  [Mnemonic |-> "ORA", Size |-> 2, Cycles |-> 4, PageCrossCycles |-> 0, Mode |-> "ZeroPageX"],
  [Mnemonic |-> "ASL", Size |-> 2, Cycles |-> 6, PageCrossCycles |-> 0, Mode |-> "ZeroPageX"],
  [Mnemonic |-> "SLO", Size |-> 2, Cycles |-> 6, PageCrossCycles |-> 0, Mode |-> "ZeroPageX"],
  [Mnemonic |-> "CLC", Size |-> 1, Cycles |-> 2, PageCrossCycles |-> 0, Mode |-> "Implied"],
  [Mnemonic |-> "ORA", Size |-> 3, Cycles |-> 4, PageCrossCycles |-> 1, Mode |-> "AbsoluteY"],
  [Mnemonic |-> "NOP", Size |-> 1, Cycles |-> 2, PageCrossCycles |-> 0, Mode |-> "Implied"],
  [Mnemonic |-> "SLO", Size |-> 3, Cycles |-> 7, PageCrossCycles |-> 0, Mode |-> "AbsoluteY"],
  [Mnemonic |-> "NOP", Size |-> 3, Cycles |-> 4, PageCrossCycles |-> 1, Mode |-> "AbsoluteX"],
  [Mnemonic |-> "ORA", Size |-> 3, Cycles |-> 4, PageCrossCycles |-> 1, Mode |-> "AbsoluteX"],
  [Mnemonic |-> "ASL", Size |-> 3, Cycles |-> 7, PageCrossCycles |-> 0, Mode |-> "AbsoluteX"],
  [Mnemonic |-> "SLO", Size |-> 3, Cycles |-> 7, PageCrossCycles |-> 0, Mode |-> "AbsoluteX"],
  [Mnemonic |-> "JSR", Size |-> 3, Cycles |-> 6, PageCrossCycles |-> 0, Mode |-> "Absolute"],
  [Mnemonic |-> "AND", Size |-> 2, Cycles |-> 6, PageCrossCycles |-> 0, Mode |-> "IndexedIndirect"],
  [Mnemonic |-> "HLT", Size |-> 1, Cycles |-> 0, PageCrossCycles |-> 0, Mode |-> "Implied"],
  [Mnemonic |-> "RLA", Size |-> 2, Cycles |-> 8, PageCrossCycles |-> 0, Mode |-> "IndexedIndirect"],
  [Mnemonic |-> "BIT", Size |-> 2, Cycles |-> 3, PageCrossCycles |-> 0, Mode |-> "ZeroPage"],
  [Mnemonic |-> "AND", Size |-> 2, Cycles |-> 3, PageCrossCycles |-> 0, Mode |-> "ZeroPage"],
  [Mnemonic |-> "ROL", Size |-> 2, Cycles |-> 5, PageCrossCycles |-> 0, Mode |-> "ZeroPage"],
  [Mnemonic |-> "RLA", Size |-> 2, Cycles |-> 5, PageCrossCycles |-> 0, Mode |-> "ZeroPage"],
  [Mnemonic |-> "PLP", Size |-> 1, Cycles |-> 4, PageCrossCycles |-> 0, Mode |-> "Implied"],
  [Mnemonic |-> "AND", Size |-> 2, Cycles |-> 2, PageCrossCycles |-> 0, Mode |-> "Immediate"],
  [Mnemonic |-> "ROL", Size |-> 1, Cycles |-> 2, PageCrossCycles |-> 0, Mode |-> "Accumulator"],
  [Mnemonic |-> "ANC", Size |-> 2, Cycles |-> 2, PageCrossCycles |-> 0, Mode |-> "Immediate"],
  [Mnemonic |-> "BIT", Size |-> 3, Cycles |-> 4, PageCrossCycles |-> 0, Mode |-> "Absolute"],
  [Mnemonic |-> "AND", Size |-> 3, Cycles |-> 4, PageCrossCycles |-> 0, Mode |-> "Absolute"],
  [Mnemonic |-> "ROL", Size |-> 3, Cycles |-> 6, PageCrossCycles |-> 0, Mode |-> "Absolute"],
  [Mnemonic |-> "RLA", Size |-> 3, Cycles |-> 6, PageCrossCycles |-> 0, Mode |-> "Absolute"],
  [Mnemonic |-> "BMI", Size |-> 2, Cycles |-> 2, PageCrossCycles |-> 0, Mode |-> "Relative"],
  [Mnemonic |-> "AND", Size |-> 2, Cycles |-> 5, PageCrossCycles |-> 1, Mode |-> "IndirectIndexed"],
  [Mnemonic |-> "HLT", Size |-> 1, Cycles |-> 0, PageCrossCycles |-> 0, Mode |-> "Implied"],
  [Mnemonic |-> "RLA", Size |-> 2, Cycles |-> 8, PageCrossCycles |-> 0, Mode |-> "IndirectIndexed"],
  [Mnemonic |-> "NOP", Size |-> 2, Cycles |-> 4, PageCrossCycles |-> 0, Mode |-> "ZeroPageX"],
  [Mnemonic |-> "AND", Size |-> 2, Cycles |-> 4, PageCrossCycles |-> 0, Mode |-> "ZeroPageX"],
  [Mnemonic |-> "ROL", Size |-> 2, Cycles |-> 6, PageCrossCycles |-> 0, Mode |-> "ZeroPageX"],
  [Mnemonic |-> "RLA", Size |-> 2, Cycles |-> 6, PageCrossCycles |-> 0, Mode |-> "ZeroPageX"],
  [Mnemonic |-> "SEC", Size |-> 1, Cycles |-> 2, PageCrossCycles |-> 0, Mode |-> "Implied"],
  [Mnemonic |-> "AND", Size |-> 3, Cycles |-> 4, PageCrossCycles |-> 1, Mode |-> "AbsoluteY"],
  [Mnemonic |-> "NOP", Size |-> 1, Cycles |-> 2, PageCrossCycles |-> 0, Mode |-> "Implied"],
  [Mnemonic |-> "RLA", Size |-> 3, Cycles |-> 7, PageCrossCycles |-> 0, Mode |-> "AbsoluteY"],
  [Mnemonic |-> "NOP", Size |-> 3, Cycles |-> 4, PageCrossCycles |-> 1, Mode |-> "AbsoluteX"],
  [Mnemonic |-> "AND", Size |-> 3, Cycles |-> 4, PageCrossCycles |-> 1, Mode |-> "AbsoluteX"],
  [Mnemonic |-> "ROL", Size |-> 3, Cycles |-> 7, PageCrossCycles |-> 0, Mode |-> "AbsoluteX"],
  [Mnemonic |-> "RLA", Size |-> 3, Cycles |-> 7, PageCrossCycles |-> 0, Mode |-> "AbsoluteX"],
  [Mnemonic |-> "RTI", Size |-> 1, Cycles |-> 6, PageCrossCycles |-> 0, Mode |-> "Implied"],
  [Mnemonic |-> "EOR", Size |-> 2, Cycles |-> 6, PageCrossCycles |-> 0, Mode |-> "IndexedIndirect"],
  [Mnemonic |-> "HLT", Size |-> 1, Cycles |-> 0, PageCrossCycles |-> 0, Mode |-> "Implied"],
  [Mnemonic |-> "SRE", Size |-> 2, Cycles |-> 8, PageCrossCycles |-> 0, Mode |-> "IndexedIndirect"],
  [Mnemonic |-> "NOP", Size |-> 2, Cycles |-> 3, PageCrossCycles |-> 0, Mode |-> "ZeroPage"],
  [Mnemonic |-> "EOR", Size |-> 2, Cycles |-> 3, PageCrossCycles |-> 0, Mode |-> "ZeroPage"],
  [Mnemonic |-> "LSR", Size |-> 2, Cycles |-> 5, PageCrossCycles |-> 0, Mode |-> "ZeroPage"],
  [Mnemonic |-> "SRE", Size |-> 2, Cycles |-> 5, PageCrossCycles |-> 0, Mode |-> "ZeroPage"],
  [Mnemonic |-> "PHA", Size |-> 1, Cycles |-> 3, PageCrossCycles |-> 0, Mode |-> "Implied"],
  [Mnemonic |-> "EOR", Size |-> 2, Cycles |-> 2, PageCrossCycles |-> 0, Mode |-> "Immediate"],
  [Mnemonic |-> "LSR", Size |-> 1, Cycles |-> 2, PageCrossCycles |-> 0, Mode |-> "Accumulator"],
  [Mnemonic |-> "ALR", Size |-> 2, Cycles |-> 2, PageCrossCycles |-> 0, Mode |-> "Immediate"],
  [Mnemonic |-> "JMP", Size |-> 3, Cycles |-> 3, PageCrossCycles |-> 0, Mode |-> "Absolute"],
  [Mnemonic |-> "EOR", Size |-> 3, Cycles |-> 4, PageCrossCycles |-> 0, Mode |-> "Absolute"],
  [Mnemonic |-> "LSR", Size |-> 3, Cycles |-> 6, PageCrossCycles |-> 0, Mode |-> "Absolute"],
  [Mnemonic |-> "SRE", Size |-> 3, Cycles |-> 6, PageCrossCycles |-> 0, Mode |-> "Absolute"],
  [Mnemonic |-> "BVC", Size |-> 2, Cycles |-> 2, PageCrossCycles |-> 0, Mode |-> "Relative"],
  [Mnemonic |-> "EOR", Size |-> 2, Cycles |-> 5, PageCrossCycles |-> 1, Mode |-> "IndirectIndexed"],
  [Mnemonic |-> "HLT", Size |-> 1, Cycles |-> 0, PageCrossCycles |-> 0, Mode |-> "Implied"],
  [Mnemonic |-> "SRE", Size |-> 2, Cycles |-> 8, PageCrossCycles |-> 0, Mode |-> "IndirectIndexed"],
  [Mnemonic |-> "NOP", Size |-> 2, Cycles |-> 4, PageCrossCycles |-> 0, Mode |-> "ZeroPageX"],
  [Mnemonic |-> "EOR", Size |-> 2, Cycles |-> 4, PageCrossCycles |-> 0, Mode |-> "ZeroPageX"],
  [Mnemonic |-> "LSR", Size |-> 2, Cycles |-> 6, PageCrossCycles |-> 0, Mode |-> "ZeroPageX"],
  [Mnemonic |-> "SRE", Size |-> 2, Cycles |-> 6, PageCrossCycles |-> 0, Mode |-> "ZeroPageX"],
  [Mnemonic |-> "CLI", Size |-> 1, Cycles |-> 2, PageCrossCycles |-> 0, Mode |-> "Implied"],
  [Mnemonic |-> "EOR", Size |-> 3, Cycles |-> 4, PageCrossCycles |-> 1, Mode |-> "AbsoluteY"],
  [Mnemonic |-> "NOP", Size |-> 1, Cycles |-> 2, PageCrossCycles |-> 0, Mode |-> "Implied"],
  [Mnemonic |-> "SRE", Size |-> 3, Cycles |-> 7, PageCrossCycles |-> 0, Mode |-> "AbsoluteY"],
  [Mnemonic |-> "NOP", Size |-> 3, Cycles |-> 4, PageCrossCycles |-> 1, Mode |-> "AbsoluteX"],
  [Mnemonic |-> "EOR", Size |-> 3, Cycles |-> 4, PageCrossCycles |-> 1, Mode |-> "AbsoluteX"],
  [Mnemonic |-> "LSR", Size |-> 3, Cycles |-> 7, PageCrossCycles |-> 0, Mode |-> "AbsoluteX"],
  [Mnemonic |-> "SRE", Size |-> 3, Cycles |-> 7, PageCrossCycles |-> 0, Mode |-> "AbsoluteX"],
  [Mnemonic |-> "RTS", Size |-> 1, Cycles |-> 6, PageCrossCycles |-> 0, Mode |-> "Implied"],
  [Mnemonic |-> "ADC", Size |-> 2, Cycles |-> 6, PageCrossCycles |-> 0, Mode |-> "IndexedIndirect"],
  [Mnemonic |-> "HLT", Size |-> 1, Cycles |-> 0, PageCrossCycles |-> 0, Mode |-> "Implied"],
  [Mnemonic |-> "RRA", Size |-> 2, Cycles |-> 8, PageCrossCycles |-> 0, Mode |-> "IndexedIndirect"],
  [Mnemonic |-> "NOP", Size |-> 2, Cycles |-> 3, PageCrossCycles |-> 0, Mode |-> "ZeroPage"],
  [Mnemonic |-> "ADC", Size |-> 2, Cycles |-> 3, PageCrossCycles |-> 0, Mode |-> "ZeroPage"],
  [Mnemonic |-> "ROR", Size |-> 2, Cycles |-> 5, PageCrossCycles |-> 0, Mode |-> "ZeroPage"],
  [Mnemonic |-> "RRA", Size |-> 2, Cycles |-> 5, PageCrossCycles |-> 0, Mode |-> "ZeroPage"],
  [Mnemonic |-> "PLA", Size |-> 1, Cycles |-> 4, PageCrossCycles |-> 0, Mode |-> "Implied"],
  [Mnemonic |-> "ADC", Size |-> 2, Cycles |-> 2, PageCrossCycles |-> 0, Mode |-> "Immediate"],
  [Mnemonic |-> "ROR", Size |-> 1, Cycles |-> 2, PageCrossCycles |-> 0, Mode |-> "Accumulator"],
  [Mnemonic |-> "ARR", Size |-> 2, Cycles |-> 2, PageCrossCycles |-> 0, Mode |-> "Immediate"],
  [Mnemonic |-> "JMP", Size |-> 3, Cycles |-> 5, PageCrossCycles |-> 0, Mode |-> "Indirect"],
  [Mnemonic |-> "ADC", Size |-> 3, Cycles |-> 4, PageCrossCycles |-> 0, Mode |-> "Absolute"],
  [Mnemonic |-> "ROR", Size |-> 3, Cycles |-> 6, PageCrossCycles |-> 0, Mode |-> "Absolute"],
  [Mnemonic |-> "RRA", Size |-> 3, Cycles |-> 6, PageCrossCycles |-> 0, Mode |-> "Absolute"],
  [Mnemonic |-> "BVS", Size |-> 2, Cycles |-> 2, PageCrossCycles |-> 0, Mode |-> "Relative"],
  [Mnemonic |-> "ADC", Size |-> 2, Cycles |-> 5, PageCrossCycles |-> 1, Mode |-> "IndirectIndexed"],
  [Mnemonic |-> "HLT", Size |-> 1, Cycles |-> 0, PageCrossCycles |-> 0, Mode |-> "Implied"],
  [Mnemonic |-> "RRA", Size |-> 2, Cycles |-> 8, PageCrossCycles |-> 0, Mode |-> "IndirectIndexed"],
  [Mnemonic |-> "NOP", Size |-> 2, Cycles |-> 4, PageCrossCycles |-> 0, Mode |-> "ZeroPageX"],
  [Mnemonic |-> "ADC", Size |-> 2, Cycles |-> 4, PageCrossCycles |-> 0, Mode |-> "ZeroPageX"],
  [Mnemonic |-> "ROR", Size |-> 2, Cycles |-> 6, PageCrossCycles |-> 0, Mode |-> "ZeroPageX"],
  [Mnemonic |-> "RRA", Size |-> 2, Cycles |-> 6, PageCrossCycles |-> 0, Mode |-> "ZeroPageX"],
  [Mnemonic |-> "SEI", Size |-> 1, Cycles |-> 2, PageCrossCycles |-> 0, Mode |-> "Implied"],
  [Mnemonic |-> "ADC", Size |-> 3, Cycles |-> 4, PageCrossCycles |-> 1, Mode |-> "AbsoluteY"],
  [Mnemonic |-> "NOP", Size |-> 1, Cycles |-> 2, PageCrossCycles |-> 0, Mode |-> "Implied"],
  [Mnemonic |-> "RRA", Size |-> 3, Cycles |-> 7, PageCrossCycles |-> 0, Mode |-> "AbsoluteY"],
  [Mnemonic |-> "NOP", Size |-> 3, Cycles |-> 4, PageCrossCycles |-> 1, Mode |-> "AbsoluteX"],
  [Mnemonic |-> "ADC", Size |-> 3, Cycles |-> 4, PageCrossCycles |-> 1, Mode |-> "AbsoluteX"],
  [Mnemonic |-> "ROR", Size |-> 3, Cycles |-> 7, PageCrossCycles |-> 0, Mode |-> "AbsoluteX"],
  [Mnemonic |-> "RRA", Size |-> 3, Cycles |-> 7, PageCrossCycles |-> 0, Mode |-> "AbsoluteX"],
  [Mnemonic |-> "NOP", Size |-> 2, Cycles |-> 2, PageCrossCycles |-> 0, Mode |-> "Immediate"],
  [Mnemonic |-> "STA", Size |-> 2, Cycles |-> 6, PageCrossCycles |-> 0, Mode |-> "IndexedIndirect"],
  [Mnemonic |-> "NOP", Size |-> 2, Cycles |-> 2, PageCrossCycles |-> 0, Mode |-> "Immediate"],
  [Mnemonic |-> "SAX", Size |-> 2, Cycles |-> 6, PageCrossCycles |-> 0, Mode |-> "IndexedIndirect"],
  [Mnemonic |-> "STY", Size |-> 2, Cycles |-> 3, PageCrossCycles |-> 0, Mode |-> "ZeroPage"],
  [Mnemonic |-> "STA", Size |-> 2, Cycles |-> 3, PageCrossCycles |-> 0, Mode |-> "ZeroPage"],
  [Mnemonic |-> "STX", Size |-> 2, Cycles |-> 3, PageCrossCycles |-> 0, Mode |-> "ZeroPage"],
  [Mnemonic |-> "SAX", Size |-> 2, Cycles |-> 3, PageCrossCycles |-> 0, Mode |-> "ZeroPage"],
  [Mnemonic |-> "DEY", Size |-> 1, Cycles |-> 2, PageCrossCycles |-> 0, Mode |-> "Implied"],
  [Mnemonic |-> "NOP", Size |-> 2, Cycles |-> 2, PageCrossCycles |-> 0, Mode |-> "Immediate"],
  [Mnemonic |-> "TXA", Size |-> 1, Cycles |-> 2, PageCrossCycles |-> 0, Mode |-> "Implied"],
  [Mnemonic |-> "XAA", Size |-> 2, Cycles |-> 2, PageCrossCycles |-> 0, Mode |-> "Immediate"],
  [Mnemonic |-> "STY", Size |-> 3, Cycles |-> 4, PageCrossCycles |-> 0, Mode |-> "Absolute"],
  [Mnemonic |-> "STA", Size |-> 3, Cycles |-> 4, PageCrossCycles |-> 0, Mode |-> "Absolute"],
  [Mnemonic |-> "STX", Size |-> 3, Cycles |-> 4, PageCrossCycles |-> 0, Mode |-> "Absolute"],
  [Mnemonic |-> "SAX", Size |-> 3, Cycles |-> 4, PageCrossCycles |-> 0, Mode |-> "Absolute"],
  [Mnemonic |-> "BCC", Size |-> 2, Cycles |-> 2, PageCrossCycles |-> 0, Mode |-> "Relative"],
  [Mnemonic |-> "STA", Size |-> 2, Cycles |-> 6, PageCrossCycles |-> 0, Mode |-> "IndirectIndexed"],
  [Mnemonic |-> "HLT", Size |-> 1, Cycles |-> 0, PageCrossCycles |-> 0, Mode |-> "Implied"],
  [Mnemonic |-> "AHX", Size |-> 2, Cycles |-> 6, PageCrossCycles |-> 0, Mode |-> "IndirectIndexed"],
  [Mnemonic |-> "STY", Size |-> 2, Cycles |-> 4, PageCrossCycles |-> 0, Mode |-> "ZeroPageX"],
  [Mnemonic |-> "STA", Size |-> 2, Cycles |-> 4, PageCrossCycles |-> 0, Mode |-> "ZeroPageX"],
  [Mnemonic |-> "STX", Size |-> 2, Cycles |-> 4, PageCrossCycles |-> 0, Mode |-> "ZeroPageY"],
  [Mnemonic |-> "SAX", Size |-> 2, Cycles |-> 4, PageCrossCycles |-> 0, Mode |-> "ZeroPageY"],
  [Mnemonic |-> "TYA", Size |-> 1, Cycles |-> 2, PageCrossCycles |-> 0, Mode |-> "Implied"],
  [Mnemonic |-> "STA", Size |-> 3, Cycles |-> 5, PageCrossCycles |-> 0, Mode |-> "AbsoluteY"],
  [Mnemonic |-> "TXS", Size |-> 1, Cycles |-> 2, PageCrossCycles |-> 0, Mode |-> "Implied"],
  [Mnemonic |-> "TAS", Size |-> 3, Cycles |-> 5, PageCrossCycles |-> 0, Mode |-> "AbsoluteY"],
  [Mnemonic |-> "SHY", Size |-> 3, Cycles |-> 5, PageCrossCycles |-> 0, Mode |-> "AbsoluteX"],
  [Mnemonic |-> "STA", Size |-> 3, Cycles |-> 5, PageCrossCycles |-> 0, Mode |-> "AbsoluteX"],
  [Mnemonic |-> "SHX", Size |-> 3, Cycles |-> 5, PageCrossCycles |-> 0, Mode |-> "AbsoluteY"],
  [Mnemonic |-> "AHX", Size |-> 3, Cycles |-> 5, PageCrossCycles |-> 0, Mode |-> "AbsoluteY"],
  [Mnemonic |-> "LDY", Size |-> 2, Cycles |-> 2, PageCrossCycles |-> 0, Mode |-> "Immediate"],
  [Mnemonic |-> "LDA", Size |-> 2, Cycles |-> 6, PageCrossCycles |-> 0, Mode |-> "IndexedIndirect"],
  [Mnemonic |-> "LDX", Size |-> 2, Cycles |-> 2, PageCrossCycles |-> 0, Mode |-> "Immediate"],
  [Mnemonic |-> "LAX", Size |-> 2, Cycles |-> 6, PageCrossCycles |-> 0, Mode |-> "IndexedIndirect"],
  [Mnemonic |-> "LDY", Size |-> 2, Cycles |-> 3, PageCrossCycles |-> 0, Mode |-> "ZeroPage"],
  [Mnemonic |-> "LDA", Size |-> 2, Cycles |-> 3, PageCrossCycles |-> 0, Mode |-> "ZeroPage"],
  [Mnemonic |-> "LDX", Size |-> 2, Cycles |-> 3, PageCrossCycles |-> 0, Mode |-> "ZeroPage"],
  [Mnemonic |-> "LAX", Size |-> 2, Cycles |-> 3, PageCrossCycles |-> 0, Mode |-> "ZeroPage"],
  [Mnemonic |-> "TAY", Size |-> 1, Cycles |-> 2, PageCrossCycles |-> 0, Mode |-> "Implied"],
  [Mnemonic |-> "LDA", Size |-> 2, Cycles |-> 2, PageCrossCycles |-> 0, Mode |-> "Immediate"],
  [Mnemonic |-> "TAX", Size |-> 1, Cycles |-> 2, PageCrossCycles |-> 0, Mode |-> "Implied"],
  [Mnemonic |-> "LAX", Size |-> 2, Cycles |-> 2, PageCrossCycles |-> 0, Mode |-> "Immediate"],
  [Mnemonic |-> "LDY", Size |-> 3, Cycles |-> 4, PageCrossCycles |-> 0, Mode |-> "Absolute"],
  [Mnemonic |-> "LDA", Size |-> 3, Cycles |-> 4, PageCrossCycles |-> 0, Mode |-> "Absolute"],
  [Mnemonic |-> "LDX", Size |-> 3, Cycles |-> 4, PageCrossCycles |-> 0, Mode |-> "Absolute"],
  [Mnemonic |-> "LAX", Size |-> 3, Cycles |-> 4, PageCrossCycles |-> 0, Mode |-> "Absolute"],
  [Mnemonic |-> "BCS", Size |-> 2, Cycles |-> 2, PageCrossCycles |-> 0, Mode |-> "Relative"],
  [Mnemonic |-> "LDA", Size |-> 2, Cycles |-> 5, PageCrossCycles |-> 1, Mode |-> "IndirectIndexed"],
  [Mnemonic |-> "HLT", Size |-> 1, Cycles |-> 0, PageCrossCycles |-> 0, Mode |-> "Implied"],
  [Mnemonic |-> "LAX", Size |-> 2, Cycles |-> 5, PageCrossCycles |-> 1, Mode |-> "IndirectIndexed"],
  [Mnemonic |-> "LDY", Size |-> 2, Cycles |-> 4, PageCrossCycles |-> 0, Mode |-> "ZeroPageX"],
  [Mnemonic |-> "LDA", Size |-> 2, Cycles |-> 4, PageCrossCycles |-> 0, Mode |-> "ZeroPageX"],
  [Mnemonic |-> "LDX", Size |-> 2, Cycles |-> 4, PageCrossCycles |-> 0, Mode |-> "ZeroPageY"],
  [Mnemonic |-> "LAX", Size |-> 2, Cycles |-> 4, PageCrossCycles |-> 0, Mode |-> "ZeroPageY"],
  [Mnemonic |-> "CLV", Size |-> 1, Cycles |-> 2, PageCrossCycles |-> 0, Mode |-> "Implied"],
  [Mnemonic |-> "LDA", Size |-> 3, Cycles |-> 4, PageCrossCycles |-> 1, Mode |-> "AbsoluteY"],
  [Mnemonic |-> "TSX", Size |-> 1, Cycles |-> 2, PageCrossCycles |-> 0, Mode |-> "Implied"],
  [Mnemonic |-> "LAS", Size |-> 3, Cycles |-> 4, PageCrossCycles |-> 1, Mode |-> "AbsoluteY"],
  [Mnemonic |-> "LDY", Size |-> 3, Cycles |-> 4, PageCrossCycles |-> 1, Mode |-> "AbsoluteX"],
  [Mnemonic |-> "LDA", Size |-> 3, Cycles |-> 4, PageCrossCycles |-> 1, Mode |-> "AbsoluteX"],
  [Mnemonic |-> "LDX", Size |-> 3, Cycles |-> 4, PageCrossCycles |-> 1, Mode |-> "AbsoluteY"],
  [Mnemonic |-> "LAX", Size |-> 3, Cycles |-> 4, PageCrossCycles |-> 1, Mode |-> "AbsoluteY"],
  [Mnemonic |-> "CPY", Size |-> 2, Cycles |-> 2, PageCrossCycles |-> 0, Mode |-> "Immediate"],
  [Mnemonic |-> "CMP", Size |-> 2, Cycles |-> 6, PageCrossCycles |-> 0, Mode |-> "IndexedIndirect"],
  [Mnemonic |-> "NOP", Size |-> 2, Cycles |-> 2, PageCrossCycles |-> 0, Mode |-> "Immediate"],
  [Mnemonic |-> "DCP", Size |-> 2, Cycles |-> 8, PageCrossCycles |-> 0, Mode |-> "IndexedIndirect"],
  [Mnemonic |-> "CPY", Size |-> 2, Cycles |-> 3, PageCrossCycles |-> 0, Mode |-> "ZeroPage"],
  [Mnemonic |-> "CMP", Size |-> 2, Cycles |-> 3, PageCrossCycles |-> 0, Mode |-> "ZeroPage"],
  [Mnemonic |-> "DEC", Size |-> 2, Cycles |-> 5, PageCrossCycles |-> 0, Mode |-> "ZeroPage"],
  [Mnemonic |-> "DCP", Size |-> 2, Cycles |-> 5, PageCrossCycles |-> 0, Mode |-> "ZeroPage"],
  [Mnemonic |-> "INY", Size |-> 1, Cycles |-> 2, PageCrossCycles |-> 0, Mode |-> "Implied"],
  [Mnemonic |-> "CMP", Size |-> 2, Cycles |-> 2, PageCrossCycles |-> 0, Mode |-> "Immediate"],
  [Mnemonic |-> "DEX", Size |-> 1, Cycles |-> 2, PageCrossCycles |-> 0, Mode |-> "Implied"],
  [Mnemonic |-> "AXS", Size |-> 2, Cycles |-> 2, PageCrossCycles |-> 0, Mode |-> "Immediate"],
  [Mnemonic |-> "CPY", Size |-> 3, Cycles |-> 4, PageCrossCycles |-> 0, Mode |-> "Absolute"],
  [Mnemonic |-> "CMP", Size |-> 3, Cycles |-> 4, PageCrossCycles |-> 0, Mode |-> "Absolute"],
  [Mnemonic |-> "DEC", Size |-> 3, Cycles |-> 6, PageCrossCycles |-> 0, Mode |-> "Absolute"],
  [Mnemonic |-> "DCP", Size |-> 3, Cycles |-> 6, PageCrossCycles |-> 0, Mode |-> "Absolute"],
  [Mnemonic |-> "BNE", Size |-> 2, Cycles |-> 2, PageCrossCycles |-> 0, Mode |-> "Relative"],
  [Mnemonic |-> "CMP", Size |-> 2, Cycles |-> 5, PageCrossCycles |-> 1, Mode |-> "IndirectIndexed"],
  [Mnemonic |-> "HLT", Size |-> 1, Cycles |-> 0, PageCrossCycles |-> 0, Mode |-> "Implied"],
  [Mnemonic |-> "DCP", Size |-> 2, Cycles |-> 8, PageCrossCycles |-> 0, Mode |-> "IndirectIndexed"],
  [Mnemonic |-> "NOP", Size |-> 2, Cycles |-> 4, PageCrossCycles |-> 0, Mode |-> "ZeroPageX"],
  [Mnemonic |-> "CMP", Size |-> 2, Cycles |-> 4, PageCrossCycles |-> 0, Mode |-> "ZeroPageX"],
  [Mnemonic |-> "DEC", Size |-> 2, Cycles |-> 6, PageCrossCycles |-> 0, Mode |-> "ZeroPageX"],
  [Mnemonic |-> "DCP", Size |-> 2, Cycles |-> 6, PageCrossCycles |-> 0, Mode |-> "ZeroPageX"],
  [Mnemonic |-> "CLD", Size |-> 1, Cycles |-> 2, PageCrossCycles |-> 0, Mode |-> "Implied"],
  [Mnemonic |-> "CMP", Size |-> 3, Cycles |-> 4, PageCrossCycles |-> 1, Mode |-> "AbsoluteY"],
  [Mnemonic |-> "NOP", Size |-> 1, Cycles |-> 2, PageCrossCycles |-> 0, Mode |-> "Implied"],
  [Mnemonic |-> "DCP", Size |-> 3, Cycles |-> 7, PageCrossCycles |-> 0, Mode |-> "AbsoluteY"],
  [Mnemonic |-> "NOP", Size |-> 3, Cycles |-> 4, PageCrossCycles |-> 1, Mode |-> "AbsoluteX"],
  [Mnemonic |-> "CMP", Size |-> 3, Cycles |-> 4, PageCrossCycles |-> 1, Mode |-> "AbsoluteX"],
  [Mnemonic |-> "DEC", Size |-> 3, Cycles |-> 7, PageCrossCycles |-> 0, Mode |-> "AbsoluteX"],
  [Mnemonic |-> "DCP", Size |-> 3, Cycles |-> 7, PageCrossCycles |-> 0, Mode |-> "AbsoluteX"],
  [Mnemonic |-> "CPX", Size |-> 2, Cycles |-> 2, PageCrossCycles |-> 0, Mode |-> "Immediate"],
  [Mnemonic |-> "SBC", Size |-> 2, Cycles |-> 6, PageCrossCycles |-> 0, Mode |-> "IndexedIndirect"],
  [Mnemonic |-> "NOP", Size |-> 2, Cycles |-> 2, PageCrossCycles |-> 0, Mode |-> "Immediate"],
  [Mnemonic |-> "ISC", Size |-> 2, Cycles |-> 8, PageCrossCycles |-> 0, Mode |-> "IndexedIndirect"],
  [Mnemonic |-> "CPX", Size |-> 2, Cycles |-> 3, PageCrossCycles |-> 0, Mode |-> "ZeroPage"],
  [Mnemonic |-> "SBC", Size |-> 2, Cycles |-> 3, PageCrossCycles |-> 0, Mode |-> "ZeroPage"],
  [Mnemonic |-> "INC", Size |-> 2, Cycles |-> 5, PageCrossCycles |-> 0, Mode |-> "ZeroPage"],
  [Mnemonic |-> "ISC", Size |-> 2, Cycles |-> 5, PageCrossCycles |-> 0, Mode |-> "ZeroPage"],
  [Mnemonic |-> "INX", Size |-> 1, Cycles |-> 2, PageCrossCycles |-> 0, Mode |-> "Implied"],
  [Mnemonic |-> "SBC", Size |-> 2, Cycles |-> 2, PageCrossCycles |-> 0, Mode |-> "Immediate"],
  [Mnemonic |-> "NOP", Size |-> 1, Cycles |-> 2, PageCrossCycles |-> 0, Mode |-> "Implied"],
  [Mnemonic |-> "SBC", Size |-> 2, Cycles |-> 2, PageCrossCycles |-> 0, Mode |-> "Immediate"],
  [Mnemonic |-> "CPX", Size |-> 3, Cycles |-> 4, PageCrossCycles |-> 0, Mode |-> "Absolute"],
  [Mnemonic |-> "SBC", Size |-> 3, Cycles |-> 4, PageCrossCycles |-> 0, Mode |-> "Absolute"],
  [Mnemonic |-> "INC", Size |-> 3, Cycles |-> 6, PageCrossCycles |-> 0, Mode |-> "Absolute"],
  [Mnemonic |-> "ISC", Size |-> 3, Cycles |-> 6, PageCrossCycles |-> 0, Mode |-> "Absolute"],
  [Mnemonic |-> "BEQ", Size |-> 2, Cycles |-> 2, PageCrossCycles |-> 1, Mode |-> "Relative"],
  [Mnemonic |-> "SBC", Size |-> 2, Cycles |-> 5, PageCrossCycles |-> 1, Mode |-> "IndirectIndexed"],
  [Mnemonic |-> "HLT", Size |-> 1, Cycles |-> 0, PageCrossCycles |-> 0, Mode |-> "Implied"],
  [Mnemonic |-> "ISC", Size |-> 2, Cycles |-> 8, PageCrossCycles |-> 0, Mode |-> "IndirectIndexed"],
  [Mnemonic |-> "NOP", Size |-> 2, Cycles |-> 4, PageCrossCycles |-> 0, Mode |-> "ZeroPageX"],
  [Mnemonic |-> "SBC", Size |-> 2, Cycles |-> 4, PageCrossCycles |-> 0, Mode |-> "ZeroPageX"],
  [Mnemonic |-> "INC", Size |-> 2, Cycles |-> 6, PageCrossCycles |-> 0, Mode |-> "ZeroPageX"],
  [Mnemonic |-> "ISC", Size |-> 2, Cycles |-> 6, PageCrossCycles |-> 0, Mode |-> "ZeroPageX"],
  [Mnemonic |-> "SED", Size |-> 1, Cycles |-> 2, PageCrossCycles |-> 0, Mode |-> "Implied"],
  [Mnemonic |-> "SBC", Size |-> 3, Cycles |-> 4, PageCrossCycles |-> 1, Mode |-> "AbsoluteY"],
  [Mnemonic |-> "NOP", Size |-> 1, Cycles |-> 2, PageCrossCycles |-> 0, Mode |-> "Implied"],
  [Mnemonic |-> "ISC", Size |-> 3, Cycles |-> 7, PageCrossCycles |-> 0, Mode |-> "AbsoluteY"],
  [Mnemonic |-> "NOP", Size |-> 3, Cycles |-> 4, PageCrossCycles |-> 1, Mode |-> "AbsoluteX"],
  [Mnemonic |-> "SBC", Size |-> 3, Cycles |-> 4, PageCrossCycles |-> 1, Mode |-> "AbsoluteX"],
  [Mnemonic |-> "INC", Size |-> 3, Cycles |-> 7, PageCrossCycles |-> 0, Mode |-> "AbsoluteX"],
  [Mnemonic |-> "ISC", Size |-> 3, Cycles |-> 7, PageCrossCycles |-> 0, Mode |-> "AbsoluteX"]
>>

opcodeOf(byte) == opcodes[byte + 1]

\* ------------------------------------------------------------------------
\* The state of the program
\* ------------------------------------------------------------------------

VARIABLES
    model,        \* the Model the CPU was created for (immutable)
    reg,          \* fast.reg: the Registers PC, S, P, A, X, Y
    bus,          \* fast.bus: external memory, a 64 kB memory.RAM
    ram,          \* fast.ram: internal memory of model.InternalMemory bytes
    interrupt,    \* fast.interrupt: the interrupt latch
    cycles,       \* fast.cycles
    halted,       \* fast.halted
    addressMode,  \* fast.addressMode
    notReady,     \* fast.notReady
    monitor,      \* fast.monitor: TRUE when a Monitor is attached
    requested,    \* history: interrupt requests accepted since the last executing Step
    origin,       \* history: the registers the host left the CPU with before its first call
    last,         \* history: the last call made and what it did
    mapper,       \* memory.Mapper: its Zero byte and its list of mapped ranges
    banks         \* the memories a host can map: each one's fill byte and bytes

cpuVars == <<reg, bus, ram, interrupt, cycles, halted, addressMode, notReady>>

vars == <<model, reg, bus, ram, interrupt, cycles, halted, addressMode, notReady,
          monitor, requested, origin, last, mapper, banks>>

\* The mutable fields of the fast struct as one value
Cpu == [reg |-> reg, bus |-> bus, ram |-> ram, interrupt |-> interrupt,
        cycles |-> cycles, halted |-> halted, addressMode |-> addressMode,
        notReady |-> notReady]

\* ------------------------------------------------------------------------
\* Memory: a RAM is a function on the addresses that differ from its fill
\* value; every other address holds the fill value.
\* ------------------------------------------------------------------------

\* memory.New leaves the external RAM zero-filled
BusFill == 0

\* New resets the internal RAM to 0xff
RamFill == 255

MemFetch(mem, fill, addr) == IF addr \in DOMAIN mem THEN mem[addr] ELSE fill

MemStore(mem, fill, addr, value) ==
    [a \in (IF value = fill THEN DOMAIN mem \ {addr} ELSE DOMAIN mem \cup {addr})
        |-> IF a = addr THEN value ELSE mem[a]]

Fetch(c, addr) ==
    IF model.InternalMemory > 0 /\ addr < model.InternalMemory
    THEN MemFetch(c.ram, RamFill, addr)
    ELSE MemFetch(c.bus, BusFill, addr)

\* Store that always writes to the external bus
Store_AlwaysBus(c, addr, value) ==
    [c EXCEPT !.bus = MemStore(c.bus, BusFill, addr, value)]

Store(c, addr, value) ==
    IF model.InternalMemory > 0 /\ addr < model.InternalMemory
    THEN [c EXCEPT !.ram = MemStore(c.ram, RamFill, addr, value)]
    ELSE [c EXCEPT !.bus = MemStore(c.bus, BusFill, addr, value)]

FetchWord(c, addr) ==
    LET lo == Fetch(c, addr)
        hi == Fetch(c, u16(addr + 1)) * 256
    IN  Or(lo, hi)

FetchWordBug(c, addr) ==
    LET lo == Fetch(c, addr)
        hi == Or(Fetch(c, And(addr, 65280)), u8(addr + 1) * 256)
    IN  Or(lo, hi)

\* StoreWord on the CPU as memory: the low byte at addr, the high byte at
\* addr + 1, each through fast.Store
StoreWord(c, addr, value) ==
    Only({Store(Store(x, a, u8(v)), u16(a + 1), Shr(v, 8))
          : x \in {c}, a \in {addr}, v \in {value}})

Push(c, value) ==
    Only({[Store(x, Or(256, x.reg.S), v) EXCEPT !.reg.S = u8(x.reg.S - 1)]
          : x \in {c}, v \in {value}})

PushWord(c, value) ==
    Only({Push(Push(x, Shr(v, 8)), u8(v)) : x \in {c}, v \in {value}})

\* Pull that reads the stack before it increments S
Pull_ReadsBeforeIncrement(c) ==
    [cpu |-> [c EXCEPT !.reg.S = u8(c.reg.S + 1)],
     value |-> Fetch(c, Or(256, c.reg.S))]

\* Pull and PullWord return the value pulled along with the CPU they leave
Pull(c) ==
    Only({[cpu |-> d, value |-> Fetch(d, Or(256, d.reg.S))]
          : d \in {[x EXCEPT !.reg.S = u8(x.reg.S + 1)] : x \in {c}}})

PullWord(c) ==
    Only({Only({[cpu |-> hi.cpu, value |-> Or(hi.value * 256, lo.value)]
                : hi \in {Pull(lo.cpu)}})
          : lo \in {Pull(c)}})

\* ------------------------------------------------------------------------
\* Registers
\* ------------------------------------------------------------------------

setFlag(mask, flag, set) == IF set THEN Or(mask, flag) ELSE And(mask, Not8(flag))

setZN(r, value) ==
    LET p1 == setFlag(r.P, Z, value = 0)
    IN  [r EXCEPT !.P = setFlag(p1, N, And(value, 128) # 0)]

cmp(r, a, b) ==
    LET p1 == setFlag(r.P, C, a >= b)
        p2 == setFlag(p1, Z, a = b)
    IN  [r EXCEPT !.P = setFlag(p2, N, And(u8(a - b), 128) = 128)]

\* ------------------------------------------------------------------------
\* ALU primitives
\* ------------------------------------------------------------------------

\* Overflow taken for the unsigned carry
overflow_AsCarry(a, b, r) == a + b > 255

overflow(a, b, r) == And(And(Xor(a, r), Xor(b, r)), 128) = 128

\* Underflow computed as overflow is
underflow_AsOverflow(a, b, r) == And(And(Xor(a, r), Xor(b, r)), 128) = 128

underflow(a, b, r) == And(Xor(a, b), 128) = 128 /\ And(Xor(a, r), 128) = 128

\* adc without the decimal adjustment
adc_NeverDecimal(a, b, carry, bcd) ==
    LET t == u16(a + b + (IF carry THEN 1 ELSE 0))
        r == u8(t)
    IN  [r |-> r,
         n |-> And(r, 128) = 128,
         v |-> And(And(Xor(a, r), Xor(b, r)), 128) = 128,
         z |-> r = 0,
         c |-> And(t, 65280) # 0]

adc(a, b, carry, bcd) ==
    LET t0 == u16(a + b + (IF carry THEN 1 ELSE 0))
        lo == u8(And(a, 15) + And(b, 15) + (IF carry THEN 1 ELSE 0))
        t1 == IF bcd /\ lo > 9 THEN u16(t0 + 6) ELSE t0
        t  == IF bcd /\ t1 > 153 THEN u16(t1 + 96) ELSE t1
        r  == u8(t)
    IN  [r |-> r,
         n |-> And(r, 128) = 128,
         v |-> overflow(a, b, r),
         z |-> r = 0,
         c |-> IF bcd THEN t > 153 ELSE And(t, 65280) # 0]

sbc(a, b, carry, bcd) ==
    LET t0 == u16(a - b - (IF carry THEN 0 ELSE 1))
        lo == u8(And(a, 15) - And(b, 15) - (IF carry THEN 0 ELSE 1))
        t1 == IF bcd /\ And(lo, 240) # 0 THEN u16(t0 - 6) ELSE t0
        t  == IF bcd /\ t1 > 153 THEN u16(t1 - 96) ELSE t1
        r  == u8(t)
    IN  [r |-> r,
         n |-> And(r, 128) = 128,
         v |-> underflow(a, b, r),
         z |-> r = 0,
         c |-> t < 256]

\* ------------------------------------------------------------------------
\* Address resolver
\* ------------------------------------------------------------------------

differentPage(a, b) == And(a, 65280) # And(b, 65280)

\* resolveAddr with the zero page pointers and indexes computed in 16 bits
resolveAddr_WidePointer(c) ==
    LET mode == c.addressMode
        pc == c.reg.PC
    IN
    CASE mode = "Implied" -> [pageCrossed |-> FALSE, addr |-> 0]
      [] mode = "Accumulator" -> [pageCrossed |-> FALSE, addr |-> 0]
      [] mode = "Immediate" -> [pageCrossed |-> FALSE, addr |-> u16(pc + 1)]
      [] mode = "ZeroPage" -> [pageCrossed |-> FALSE, addr |-> Fetch(c, u16(pc + 1))]
      [] mode = "ZeroPageX" ->
            [pageCrossed |-> FALSE, addr |-> Fetch(c, u16(pc + 1)) + c.reg.X]
      [] mode = "ZeroPageY" ->
            [pageCrossed |-> FALSE, addr |-> Fetch(c, u16(pc + 1)) + c.reg.Y]
      [] mode = "Relative" ->
            LET off == Fetch(c, u16(pc + 1))
                a0 == u16(pc + off + 2)
            IN  [pageCrossed |-> FALSE,
                 addr |-> IF And(off, 128) = 128 THEN u16(a0 - 256) ELSE a0]
      [] mode = "Absolute" -> [pageCrossed |-> FALSE, addr |-> FetchWord(c, u16(pc + 1))]
      [] mode = "AbsoluteX" ->
            LET src == FetchWord(c, u16(pc + 1))
                a0 == u16(src + c.reg.X)
            IN  [pageCrossed |-> differentPage(src, a0), addr |-> a0]
      [] mode = "AbsoluteY" ->
            LET src == FetchWord(c, u16(pc + 1))
                a0 == u16(src + c.reg.Y)
            IN  [pageCrossed |-> differentPage(src, a0), addr |-> a0]
      [] mode = "Indirect" ->
            [pageCrossed |-> FALSE, addr |-> FetchWord(c, FetchWord(c, u16(pc + 1)))]
      [] mode = "IndexedIndirect" ->
            [pageCrossed |-> FALSE,
             addr |-> FetchWord(c, Fetch(c, u16(pc + 1)) + c.reg.X)]
      [] mode = "IndirectIndexed" ->
            LET a1 == FetchWord(c, Fetch(c, u16(pc + 1)))
            IN  [pageCrossed |-> differentPage(a1, u16(a1 + c.reg.Y)),
                 addr |-> u16(a1 + c.reg.Y)]

resolveAddr(c) ==
    LET mode == c.addressMode
        pc == c.reg.PC
    IN
    CASE mode = "Implied" -> [pageCrossed |-> FALSE, addr |-> 0]
      [] mode = "Accumulator" -> [pageCrossed |-> FALSE, addr |-> 0]
      [] mode = "Immediate" -> [pageCrossed |-> FALSE, addr |-> u16(pc + 1)]
      [] mode = "ZeroPage" -> [pageCrossed |-> FALSE, addr |-> Fetch(c, u16(pc + 1))]
      [] mode = "ZeroPageX" ->
            [pageCrossed |-> FALSE, addr |-> u8(Fetch(c, u16(pc + 1)) + c.reg.X)]
      [] mode = "ZeroPageY" ->
            [pageCrossed |-> FALSE, addr |-> u8(Fetch(c, u16(pc + 1)) + c.reg.Y)]
      [] mode = "Relative" ->
            LET off == Fetch(c, u16(pc + 1))
                a0 == u16(pc + off + 2)
            IN  [pageCrossed |-> FALSE,
                 addr |-> IF And(off, 128) = 128 THEN u16(a0 - 256) ELSE a0]
      [] mode = "Absolute" -> [pageCrossed |-> FALSE, addr |-> FetchWord(c, u16(pc + 1))]
      [] mode = "AbsoluteX" ->
            LET src == FetchWord(c, u16(pc + 1))
                a0 == u16(src + c.reg.X)
            IN  [pageCrossed |-> differentPage(src, a0), addr |-> a0]
      [] mode = "AbsoluteY" ->
            LET src == FetchWord(c, u16(pc + 1))
                a0 == u16(src + c.reg.Y)
            IN  [pageCrossed |-> differentPage(src, a0), addr |-> a0]
      [] mode = "Indirect" ->
            [pageCrossed |-> FALSE, addr |-> FetchWord(c, FetchWord(c, u16(pc + 1)))]
      [] mode = "IndexedIndirect" ->
            LET a0 == u8(Fetch(c, u16(pc + 1)) + c.reg.X)
                lo == Fetch(c, a0)
                hi == Fetch(c, And(u16(a0 + 1), 255))
            IN  [pageCrossed |-> FALSE, addr |-> Or(hi * 256, lo)]
      [] mode = "IndirectIndexed" ->
            LET a0 == Fetch(c, u16(pc + 1))
                lo == Fetch(c, a0)
                hi == Fetch(c, And(u16(a0 + 1), 255))
                a1 == Or(hi * 256, lo)
            IN  [pageCrossed |-> differentPage(a1, u16(a1 + c.reg.Y)),
                 addr |-> u16(a1 + c.reg.Y)]

\* ------------------------------------------------------------------------
\* Instruction executors
\* ------------------------------------------------------------------------

\* Load/store

lda(c, addr) ==
    LET v == Fetch(c, addr)
    IN  [c EXCEPT !.reg = setZN([c.reg EXCEPT !.A = v], v)]

ldx(c, addr) ==
    LET v == Fetch(c, addr)
    IN  [c EXCEPT !.reg = setZN([c.reg EXCEPT !.X = v], v)]

ldy(c, addr) ==
    LET v == Fetch(c, addr)
    IN  [c EXCEPT !.reg = setZN([c.reg EXCEPT !.Y = v], v)]

sta(c, addr) == Store(c, addr, c.reg.A)

stx(c, addr) == Store(c, addr, c.reg.X)

sty(c, addr) == Store(c, addr, c.reg.Y)

\* Transfer

tax(c, addr) == [c EXCEPT !.reg = setZN([c.reg EXCEPT !.X = c.reg.A], c.reg.A)]

tay(c, addr) == [c EXCEPT !.reg = setZN([c.reg EXCEPT !.Y = c.reg.A], c.reg.A)]

tsx(c, addr) == [c EXCEPT !.reg = setZN([c.reg EXCEPT !.X = c.reg.S], c.reg.S)]

txa(c, addr) == [c EXCEPT !.reg = setZN([c.reg EXCEPT !.A = c.reg.X], c.reg.X)]

txs(c, addr) == [c EXCEPT !.reg.S = c.reg.X]

tya(c, addr) == [c EXCEPT !.reg = setZN([c.reg EXCEPT !.A = c.reg.Y], c.reg.Y)]

\* Increment/decrement

dec(c, addr) ==
    LET v == u8(Fetch(c, addr) - 1)
        d == Store(c, addr, v)
    IN  [d EXCEPT !.reg = setZN(d.reg, v)]

dex(c, addr) ==
    LET v == u8(c.reg.X - 1)
    IN  [c EXCEPT !.reg = setZN([c.reg EXCEPT !.X = v], v)]

dey(c, addr) ==
    LET v == u8(c.reg.Y - 1)
    IN  [c EXCEPT !.reg = setZN([c.reg EXCEPT !.Y = v], v)]

inc(c, addr) ==
    LET v == u8(Fetch(c, addr) + 1)
        d == Store(c, addr, v)
    IN  [d EXCEPT !.reg = setZN(d.reg, v)]

inx(c, addr) ==
    LET v == u8(c.reg.X + 1)
    IN  [c EXCEPT !.reg = setZN([c.reg EXCEPT !.X = v], v)]

iny(c, addr) ==
    LET v == u8(c.reg.Y + 1)
    IN  [c EXCEPT !.reg = setZN([c.reg EXCEPT !.Y = v], v)]

\* Compare

fast_cmp(c, addr) == [c EXCEPT !.reg = cmp(c.reg, c.reg.A, Fetch(c, addr))]

cpx(c, addr) == [c EXCEPT !.reg = cmp(c.reg, c.reg.X, Fetch(c, addr))]

cpy(c, addr) == [c EXCEPT !.reg = cmp(c.reg, c.reg.Y, Fetch(c, addr))]

\* Processor status register

clc(c, addr) == [c EXCEPT !.reg.P = And(c.reg.P, Not8(C))]

cld(c, addr) == [c EXCEPT !.reg.P = And(c.reg.P, Not8(D))]

cli(c, addr) == [c EXCEPT !.reg.P = And(c.reg.P, Not8(I))]

clv(c, addr) == [c EXCEPT !.reg.P = And(c.reg.P, Not8(V))]

sec(c, addr) == [c EXCEPT !.reg.P = Or(c.reg.P, C)]

sed(c, addr) == [c EXCEPT !.reg.P = Or(c.reg.P, D)]

sei(c, addr) == [c EXCEPT !.reg.P = Or(c.reg.P, I)]

\* Logical operations

and(c, addr) ==
    LET v == And(c.reg.A, Fetch(c, addr))
    IN  [c EXCEPT !.reg = setZN([c.reg EXCEPT !.A = v], v)]

eor(c, addr) ==
    LET v == Xor(c.reg.A, Fetch(c, addr))
    IN  [c EXCEPT !.reg = setZN([c.reg EXCEPT !.A = v], v)]

ora(c, addr) ==
    LET v == Or(c.reg.A, Fetch(c, addr))
    IN  [c EXCEPT !.reg = setZN([c.reg EXCEPT !.A = v], v)]

bit(c, addr) ==
    LET v == Fetch(c, addr)
        p1 == setFlag(c.reg.P, V, And(v, 64) = 64)
        p2 == setFlag(p1, N, And(v, 128) = 128)
    IN  [c EXCEPT !.reg.P = setFlag(p2, Z, And(v, c.reg.A) = 0)]

asl(c, addr) ==
    IF c.addressMode = "Accumulator"
    THEN LET v == c.reg.A
             p == setFlag(c.reg.P, C, And(Shr(v, 7), 1) = 1)
             r == Shl8(v, 1)
         IN  [c EXCEPT !.reg = setZN([c.reg EXCEPT !.P = p, !.A = r], r)]
    ELSE LET v == Fetch(c, addr)
             p == setFlag(c.reg.P, C, And(Shr(v, 7), 1) = 1)
             r == Shl8(v, 1)
             d == Store(c, addr, r)
         IN  [d EXCEPT !.reg = setZN([d.reg EXCEPT !.P = p], r)]

lsr(c, addr) ==
    IF c.addressMode = "Accumulator"
    THEN LET v == c.reg.A
             p == setFlag(c.reg.P, C, And(v, 1) = 1)
             r == Shr(v, 1)
         IN  [c EXCEPT !.reg = setZN([c.reg EXCEPT !.P = p, !.A = r], r)]
    ELSE LET v == Fetch(c, addr)
             p == setFlag(c.reg.P, C, And(v, 1) = 1)
             r == Shr(v, 1)
             d == Store(c, addr, r)
         IN  [d EXCEPT !.reg = setZN([d.reg EXCEPT !.P = p], r)]

rol(c, addr) ==
    LET carry == IF And(c.reg.P, C) = C THEN 1 ELSE 0
        v == IF c.addressMode = "Accumulator" THEN c.reg.A ELSE Fetch(c, addr)
        p == setFlag(c.reg.P, C, Shr(v, 7) = 1)
        r == Or(Shl8(v, 1), carry)
        rg == setZN([c.reg EXCEPT !.P = p], r)
    IN  IF c.addressMode = "Accumulator"
        THEN [c EXCEPT !.reg = [rg EXCEPT !.A = r]]
        ELSE Store([c EXCEPT !.reg = rg], addr, r)

\* ror that shifts a zero in, as lsr does
ror_IgnoresCarry(c, addr) ==
    LET v == IF c.addressMode = "Accumulator" THEN c.reg.A ELSE Fetch(c, addr)
        p == setFlag(c.reg.P, C, And(v, 1) = 1)
        r == Shr(v, 1)
        rg == setZN([c.reg EXCEPT !.P = p], r)
    IN  IF c.addressMode = "Accumulator"
        THEN [c EXCEPT !.reg = [rg EXCEPT !.A = r]]
        ELSE Store([c EXCEPT !.reg = rg], addr, r)

ror(c, addr) ==
    LET carry == IF And(c.reg.P, C) = C THEN 128 ELSE 0
        v == IF c.addressMode = "Accumulator" THEN c.reg.A ELSE Fetch(c, addr)
        p == setFlag(c.reg.P, C, And(v, 1) = 1)
        r == Or(Shr(v, 1), carry)
        rg == setZN([c.reg EXCEPT !.P = p], r)
    IN  IF c.addressMode = "Accumulator"
        THEN [c EXCEPT !.reg = [rg EXCEPT !.A = r]]
        ELSE Store([c EXCEPT !.reg = rg], addr, r)

\* Arithmetic

setNVZC(p, res) ==
    setFlag(setFlag(setFlag(setFlag(p, N, res.n), V, res.v), Z, res.z), C, res.c)

\* fast.adc that takes D for decimal mode on every model
fast_adc_DecimalOnAnyModel(c, addr) ==
    LET res == adc(c.reg.A, Fetch(c, addr),
                   And(c.reg.P, C) = C,
                   And(c.reg.P, D) = D)
    IN  [c EXCEPT !.reg.A = res.r, !.reg.P = setNVZC(c.reg.P, res)]

fast_adc(c, addr) ==
    LET res == adc(c.reg.A, Fetch(c, addr),
                   And(c.reg.P, C) = C,
                   And(c.reg.P, D) = D /\ model.HasBCD)
    IN  [c EXCEPT !.reg.A = res.r, !.reg.P = setNVZC(c.reg.P, res)]

fast_sbc(c, addr) ==
    LET res == sbc(c.reg.A, Fetch(c, addr),
                   And(c.reg.P, C) = C,
                   And(c.reg.P, D) = D /\ model.HasBCD)
    IN  [c EXCEPT !.reg.A = res.r, !.reg.P = setNVZC(c.reg.P, res)]

\* Branching

\* A branch that charges the taken cycle only
branch_NoPagePenalty(c, pc) ==
    [c EXCEPT !.cycles = @ + 1, !.reg.PC = pc]

branch(c, pc) ==
    [c EXCEPT !.cycles = c.cycles + 1 + (IF differentPage(c.reg.PC, pc) THEN 1 ELSE 0),
              !.reg.PC = pc]

bcc(c, addr) == IF And(c.reg.P, C) = 0 THEN branch(c, addr) ELSE c

bcs(c, addr) == IF And(c.reg.P, C) = C THEN branch(c, addr) ELSE c

bne(c, addr) == IF And(c.reg.P, Z) = 0 THEN branch(c, addr) ELSE c

beq(c, addr) == IF And(c.reg.P, Z) = Z THEN branch(c, addr) ELSE c

bpl(c, addr) == IF And(c.reg.P, N) = 0 THEN branch(c, addr) ELSE c

bmi(c, addr) == IF And(c.reg.P, N) = N THEN branch(c, addr) ELSE c

bvc(c, addr) == IF And(c.reg.P, V) = 0 THEN branch(c, addr) ELSE c

bvs(c, addr) == IF And(c.reg.P, V) = V THEN branch(c, addr) ELSE c

\* Jumps and interrupts

jmp(c, addr) == [c EXCEPT !.reg.PC = addr]

\* jsr that pushes the address of the next instruction
jsr_PushesNextPC(c, addr) ==
    LET d == PushWord(c, c.reg.PC)
    IN  [d EXCEPT !.reg.PC = addr]

jsr(c, addr) ==
    LET d == PushWord(c, u16(c.reg.PC - 1))
    IN  [d EXCEPT !.reg.PC = addr]

rti(c, addr) ==
    Only({[w.cpu EXCEPT !.reg.PC = w.value]
          : w \in {PullWord([p.cpu EXCEPT !.reg.P = Or(And(p.value, 239), 32)])
                    : p \in {Pull(c)}}})

rts(c, addr) ==
    Only({[w.cpu EXCEPT !.reg.PC = u16(w.value + 1)] : w \in {PullWord(c)}})

\* brk that pushes P as it is
brk_PushesStatusAsIs(c, addr) ==
    Only({[d3 EXCEPT !.reg.PC = FetchWord(d3, IRQVector)]
          : d3 \in {[d2 EXCEPT !.reg.P = Or(d2.reg.P, I)]
          : d2 \in {Push(d1, d1.reg.P)
          : d1 \in {PushWord(x, u16(x.reg.PC + 1)) : x \in {c}}}}})

brk(c, addr) ==
    Only({[d3 EXCEPT !.reg.PC = FetchWord(d3, IRQVector)]
          : d3 \in {[d2 EXCEPT !.reg.P = Or(d2.reg.P, I)]
          : d2 \in {Push(d1, Or(d1.reg.P, 16))
          : d1 \in {PushWord(x, u16(x.reg.PC + 1)) : x \in {c}}}}})

\* nmi that sets I before it pushes P
nmi_SetsIBeforePush(c) ==
    Only({[d3 EXCEPT !.reg.PC = FetchWord(d3, NMIVector), !.cycles = d3.cycles + 7]
          : d3 \in {Push(d2, d2.reg.P)
          : d2 \in {[d1 EXCEPT !.reg.P = Or(d1.reg.P, I)]
          : d1 \in {PushWord(x, x.reg.PC) : x \in {c}}}}})

nmi(c) ==
    Only({[d3 EXCEPT !.reg.PC = FetchWord(d3, NMIVector), !.cycles = d3.cycles + 7]
          : d3 \in {[d2 EXCEPT !.reg.P = Or(d2.reg.P, I)]
          : d2 \in {Push(d1, d1.reg.P)
          : d1 \in {PushWord(x, x.reg.PC) : x \in {c}}}}})

irq(c) ==
    Only({[d3 EXCEPT !.reg.PC = FetchWord(d3, IRQVector), !.cycles = d3.cycles + 7]
          : d3 \in {[d2 EXCEPT !.reg.P = Or(d2.reg.P, I)]
          : d2 \in {Push(d1, d1.reg.P)
          : d1 \in {PushWord(x, x.reg.PC) : x \in {c}}}}})

\* Push/Pull values

pha(c, addr) == Push(c, c.reg.A)

php(c, addr) == Push(c, Or(c.reg.P, B))

pla(c, addr) ==
    LET p == Pull(c)
    IN  [p.cpu EXCEPT !.reg = setZN([p.cpu.reg EXCEPT !.A = p.value], p.value)]

\* plp that leaves bit 4 as pulled
plp_KeepsPulledBreak(c, addr) ==
    LET p == Pull(c)
    IN  [p.cpu EXCEPT !.reg.P = Or(p.value, 32)]

\* plp that leaves bit 5 as pulled
plp_KeepsPulledUnused(c, addr) ==
    LET p == Pull(c)
    IN  [p.cpu EXCEPT !.reg.P = And(p.value, 239)]

plp(c, addr) ==
    LET p == Pull(c)
    IN  [p.cpu EXCEPT !.reg.P = Or(And(p.value, 239), 32)]

\* Misc.

nop(c, addr) == c

hlt(c, addr) == [c EXCEPT !.reg.PC = u16(c.reg.PC - 1), !.halted = TRUE]

\* Undocumented

alr(c, addr) == lsr([and(c, addr) EXCEPT !.addressMode = "Accumulator"], addr)

anc(c, addr) ==
    LET d == and(c, addr)
    IN  [d EXCEPT !.reg.P = setFlag(d.reg.P, C, And(d.reg.P, N) = N)]

arr(c, addr) ==
    LET d == ror([and(c, addr) EXCEPT !.addressMode = "Accumulator"], addr)
        b5 == And(Shr(d.reg.A, 5), 1) = 1
        b6 == And(Shr(d.reg.A, 6), 1) = 1
    IN  [d EXCEPT !.reg.P = setFlag(setFlag(d.reg.P, C, b6), V, b5 # b6)]

axs(c, addr) ==
    LET a == And(c.reg.A, c.reg.X)
        v == Fetch(c, addr)
        x == u8(a - v)
        p == setFlag(c.reg.P, C, a >= v)
    IN  [c EXCEPT !.reg = setZN([c.reg EXCEPT !.X = x, !.P = p], x)]

lax(c, addr) ==
    LET v == Fetch(c, addr)
    IN  [c EXCEPT !.reg = setZN([c.reg EXCEPT !.A = v, !.X = v], v)]

las(c, addr) ==
    LET v == And(Fetch(c, addr), c.reg.S)
    IN  [c EXCEPT !.reg = setZN([c.reg EXCEPT !.S = v, !.X = v, !.A = v], v)]

sax(c, addr) == Store(c, addr, And(c.reg.A, c.reg.X))

dcp(c, addr) == fast_cmp(dec(c, addr), addr)

isc(c, addr) == fast_sbc(inc(c, addr), addr)

rla(c, addr) == and(rol(c, addr), addr)

slo(c, addr) == ora(asl(c, addr), addr)

sre(c, addr) == eor(lsr(c, addr), addr)

rra(c, addr) == fast_adc(ror(c, addr), addr)

ahx(c, addr) == Store(c, addr, And(And(u8(Shr(addr, 8) + 1), c.reg.A), c.reg.X))

shx(c, addr) == Store(c, addr, And(u8(Shr(addr, 8) + 1), c.reg.X))

shy(c, addr) == Store(c, addr, And(u8(Shr(addr, 8) + 1), c.reg.Y))

tas(c, addr) ==
    LET d == [c EXCEPT !.reg.S = And(c.reg.A, c.reg.X)]
        v == And(And(d.reg.S, Shr(addr, 8) + 1), 255)
        t == And(u16(addr - d.reg.Y), 255)
    IN  IF d.reg.Y + t <= 255
        THEN Store(d, addr, u8(v))
        ELSE Store(d, addr, Fetch(d, addr))

xaa(c, addr) ==
    LET v == And(c.reg.X, Fetch(c, addr))
    IN  [c EXCEPT !.reg = setZN([c.reg EXCEPT !.A = v], v)]

\* fast.ops: the handler of each mnemonic
ops(m, c, addr) ==
    CASE m = "ADC" -> fast_adc(c, addr)
      [] m = "AND" -> and(c, addr)
      [] m = "ASL" -> asl(c, addr)
      [] m = "BCC" -> bcc(c, addr)
      [] m = "BCS" -> bcs(c, addr)
      [] m = "BEQ" -> beq(c, addr)
      [] m = "BIT" -> bit(c, addr)
      [] m = "BMI" -> bmi(c, addr)
      [] m = "BNE" -> bne(c, addr)
      [] m = "BPL" -> bpl(c, addr)
      [] m = "BRK" -> brk(c, addr)
      [] m = "BVC" -> bvc(c, addr)
      [] m = "BVS" -> bvs(c, addr)
      [] m = "CLC" -> clc(c, addr)
      [] m = "CLD" -> cld(c, addr)
      [] m = "CLI" -> cli(c, addr)
      [] m = "CLV" -> clv(c, addr)
      [] m = "CMP" -> fast_cmp(c, addr)
      [] m = "CPX" -> cpx(c, addr)
      [] m = "CPY" -> cpy(c, addr)
      [] m = "DEC" -> dec(c, addr)
      [] m = "DEX" -> dex(c, addr)
      [] m = "DEY" -> dey(c, addr)
      [] m = "EOR" -> eor(c, addr)
      [] m = "INC" -> inc(c, addr)
      [] m = "INX" -> inx(c, addr)
      [] m = "INY" -> iny(c, addr)
      [] m = "JMP" -> jmp(c, addr)
      [] m = "JSR" -> jsr(c, addr)
      [] m = "LDA" -> lda(c, addr)
      [] m = "LDX" -> ldx(c, addr)
      [] m = "LDY" -> ldy(c, addr)
      [] m = "LSR" -> lsr(c, addr)
      [] m = "NOP" -> nop(c, addr)
      [] m = "ORA" -> ora(c, addr)
      [] m = "PHA" -> pha(c, addr)
      [] m = "PHP" -> php(c, addr)
      [] m = "PLA" -> pla(c, addr)
      [] m = "PLP" -> plp(c, addr)
      [] m = "ROL" -> rol(c, addr)
      [] m = "ROR" -> ror(c, addr)
      [] m = "RTI" -> rti(c, addr)
      [] m = "RTS" -> rts(c, addr)
      [] m = "SBC" -> fast_sbc(c, addr)
      [] m = "SEC" -> sec(c, addr)
      [] m = "SED" -> sed(c, addr)
      [] m = "SEI" -> sei(c, addr)
      [] m = "STA" -> sta(c, addr)
      [] m = "STX" -> stx(c, addr)
      [] m = "STY" -> sty(c, addr)
      [] m = "TAX" -> tax(c, addr)
      [] m = "TAY" -> tay(c, addr)
      [] m = "TSX" -> tsx(c, addr)
      [] m = "TXA" -> txa(c, addr)
      [] m = "TXS" -> txs(c, addr)
      [] m = "TYA" -> tya(c, addr)
      [] m = "HLT" -> hlt(c, addr)
      [] m = "LAX" -> lax(c, addr)
      [] m = "SAX" -> sax(c, addr)
      [] m = "DCP" -> dcp(c, addr)
      [] m = "ISC" -> isc(c, addr)
      [] m = "RLA" -> rla(c, addr)
      [] m = "RRA" -> rra(c, addr)
      [] m = "SLO" -> slo(c, addr)
      [] m = "SRE" -> sre(c, addr)
      [] m = "ANC" -> anc(c, addr)
      [] m = "ALR" -> alr(c, addr)
      [] m = "ARR" -> arr(c, addr)
      [] m = "XAA" -> xaa(c, addr)
      [] m = "AHX" -> ahx(c, addr)
      [] m = "TAS" -> tas(c, addr)
      [] m = "SHX" -> shx(c, addr)
      [] m = "SHY" -> shy(c, addr)
      [] m = "LAS" -> las(c, addr)
      [] m = "AXS" -> axs(c, addr)

\* ------------------------------------------------------------------------
\* CPU driver
\* ------------------------------------------------------------------------

\* IRQ that does not look at the model
RequestIRQ_Unguarded(c) == [c EXCEPT !.interrupt = IRQ]

\* fast.IRQ
RequestIRQ(c) == IF ~model.HasIRQ THEN c ELSE [c EXCEPT !.interrupt = IRQ]

\* fast.NMI
RequestNMI(c) == IF ~model.HasNMI THEN c ELSE [c EXCEPT !.interrupt = NMI]

\* Reset that keeps the interrupt latch
Reset_KeepsLatch(c) ==
    [c EXCEPT !.reg.PC = FetchWord(c, ResetVector),
              !.reg.S = 253,
              !.reg.P = 52,
              !.halted = FALSE,
              !.notReady = FALSE]

Reset(c) ==
    [c EXCEPT !.reg.PC = FetchWord(c, ResetVector),
              !.reg.S = 253,
              !.reg.P = 52,
              !.interrupt = None,
              !.halted = FALSE,
              !.notReady = FALSE]

Ready(c, on) == IF ~model.HasReady THEN c ELSE [c EXCEPT !.notReady = ~on]

\* handleInterrupts that leaves an IRQ unserviced while I is set
handleInterrupts_MaskedByI(c) ==
    LET d == CASE c.interrupt = NMI -> nmi(c)
               [] c.interrupt = IRQ /\ And(c.reg.P, I) = 0 -> irq(c)
               [] OTHER -> c
    IN  [d EXCEPT !.interrupt = None]

handleInterrupts(c) ==
    LET d == CASE c.interrupt = NMI -> nmi(c)
               [] c.interrupt = IRQ -> irq(c)
               [] OTHER -> c
    IN  [d EXCEPT !.interrupt = None]

nextOpcode(c) == opcodeOf(Fetch(c, c.reg.PC))

\* The byte on top of the stack, as left there by the last push
TopOfStack(c) == Fetch(c, Or(256, u8(c.reg.S + 1)))

\* The word below the top of the stack: what PushWord left before one more Push
WordBelowTop(c) ==
    Or(Fetch(c, Or(256, u8(c.reg.S + 3))) * 256, Fetch(c, Or(256, u8(c.reg.S + 2))))

\* ReaderAt.ReadAt on a memory, for a buffer of len zero bytes and the
\* offset off: the count and error returned and the buffer afterwards
ReadAt(mem, fill, len, off) ==
    IF off > 65535
    THEN [n |-> 0, err |-> "ErrShortBuffer", p |-> [i \in 1..len |-> 0]]
    ELSE Only({[n |-> size,
                err |-> IF off + len > 65535 THEN "EOF" ELSE "nil",
                p |-> [i \in 1..len |->
                         IF i - 1 < size
                         THEN MemFetch(mem, fill, u16(i - 1 + off)) ELSE 0]]
               : size \in {IF off + len > 65535 THEN 65535 - off ELSE len}})

\* fast.ReadAt for a buffer of len zero bytes: the count and error returned
\* and the buffer afterwards
fast_ReadAt(c, len, offs) ==
    IF offs < 0 \/ offs > 65535
    THEN [n |-> 0, err |-> "EOF", p |-> [i \in 1..len |-> 0]]
    ELSE Only({IF len - k > 0
               THEN Only({[n |-> IF r.err = "nil" THEN k + r.n ELSE k,
                           err |-> r.err,
                           p |-> [i \in 1..len |->
                                    IF i <= k THEN MemFetch(c.ram, RamFill, offs + i - 1)
                                    ELSE r.p[i - k]]]
                          : r \in {ReadAt(c.bus, BusFill, len - k, offs + k)}})
               ELSE [n |-> k, err |-> "nil",
                     p |-> [i \in 1..len |-> MemFetch(c.ram, RamFill, offs + i - 1)]]
               : k \in {IF model.InternalMemory > 0 /\ offs < model.InternalMemory
                        THEN (IF len < model.InternalMemory - offs THEN len
                              ELSE model.InternalMemory - offs)
                        ELSE 0}})

\* Step with RDY low: the early return
StepStalled(c) ==
    [cpu |-> c, ret |-> 0, stalled |-> TRUE, serviced |-> None,
     reg1 |-> c.reg, cycles1 |-> c.cycles, statusI |-> -1, wordI |-> -1,
     invoked |-> FALSE, vetoed |-> FALSE, pc |-> c.reg.PC, byte |-> -1,
     addr |-> 0, pageCrossed |-> FALSE, statusX |-> -1, raw |-> <<>>]


\* What Step returns once the instruction has run: c is the CPU at the call,
\* c1 the CPU after the interrupt check, ra the resolved address and c5 the
\* CPU after the executor
StepResult(c, c1, opcode, ra, c5, attached, proceed) ==
    LET start == c1.cycles
        c6 == [c5 EXCEPT !.cycles = c5.cycles + opcode.Cycles]
        info == [stalled |-> FALSE, serviced |-> c.interrupt,
                 reg1 |-> c1.reg, cycles1 |-> c1.cycles,
                 statusI |-> IF c.interrupt = None THEN -1 ELSE TopOfStack(c1),
                 wordI |-> IF c.interrupt = None THEN -1 ELSE WordBelowTop(c1),
                 invoked |-> attached, pc |-> c1.reg.PC,
                 byte |-> Fetch(c1, c1.reg.PC),
                 raw |-> IF attached THEN fast_ReadAt(c1, opcode.Size, c1.reg.PC).p
                         ELSE <<>>]
    IN  IF attached /\ ~proceed
        THEN [cpu |-> c1, ret |-> 0, vetoed |-> TRUE, addr |-> 0,
              pageCrossed |-> FALSE, statusX |-> -1] @@ info
        ELSE [cpu |-> c6, ret |-> c6.cycles - start, vetoed |-> FALSE,
              addr |-> ra.addr, pageCrossed |-> ra.pageCrossed,
              statusX |-> IF opcode.Mnemonic \in {"PHP", "BRK"}
                          THEN TopOfStack(c5) ELSE -1] @@ info

\* The CPU the executor starts from, had no page cross penalty been charged
Decoded_NoPageCross(c1, opcode, ra) ==
    [c1 EXCEPT !.addressMode = opcode.Mode, !.reg.PC = u16(@ + opcode.Size)]

\* The CPU the executor starts from, had PC moved past the opcode byte only
Decoded_SkipsOpcodeOnly(c1, opcode, ra) ==
    [c1 EXCEPT !.addressMode = opcode.Mode,
               !.cycles = IF ra.pageCrossed THEN @ + opcode.PageCrossCycles ELSE @,
               !.reg.PC = u16(@ + 1)]

\* The CPU the executor starts from: the address mode recorded, the page
\* cross penalty charged and PC moved past the instruction
Decoded(c1, opcode, ra) ==
    [c1 EXCEPT !.addressMode = opcode.Mode,
               !.cycles = IF ra.pageCrossed THEN @ + opcode.PageCrossCycles ELSE @,
               !.reg.PC = u16(@ + opcode.Size)]

\* Step with RDY high. attached tells whether a monitor is attached and
\* proceed is what its BeforeExecute returns.
StepReady(c, attached, proceed) ==
    Only({Only({Only({Only({
        StepResult(c, c1, opcode, ra, c5, attached, proceed)
            : c5 \in {ops(opcode.Mnemonic, Decoded(c1, opcode, ra), ra.addr)}})
            : ra \in {resolveAddr([c1 EXCEPT !.addressMode = opcode.Mode])}})
            : opcode \in {nextOpcode(c1)}})
            : c1 \in {handleInterrupts(c)}})

\* Step that does not look at the RDY line
Step_IgnoresReady(c, attached, proceed) == StepReady(c, attached, proceed)

\* One call of Step on the CPU c: the CPU after the call, the value returned
\* and a record of what the call did.
Step(c, attached, proceed) ==
    IF c.notReady THEN StepStalled(c) ELSE StepReady(c, attached, proceed)

\* ------------------------------------------------------------------------
\* Models
\* ------------------------------------------------------------------------

MOS6502 == [Name |-> "MOS Technology 6502", InternalMemory |-> 0,
            HasBCD |-> TRUE, HasIRQ |-> TRUE, HasNMI |-> TRUE, HasReady |-> FALSE]

MOS6505 == [Name |-> "MOS Technology 6505", InternalMemory |-> 0,
            HasBCD |-> TRUE, HasIRQ |-> TRUE, HasNMI |-> FALSE, HasReady |-> TRUE]

MOS6507 == [Name |-> "MOS Technology 6507", InternalMemory |-> 0,
            HasBCD |-> FALSE, HasIRQ |-> FALSE, HasNMI |-> FALSE, HasReady |-> FALSE]

MOS6510 == [Name |-> "MOS Technology 6510", InternalMemory |-> 0,
            HasBCD |-> TRUE, HasIRQ |-> FALSE, HasNMI |-> TRUE, HasReady |-> TRUE]

Ricoh2A03 == [Name |-> "Ricoh 2A03", InternalMemory |-> 0,
              HasBCD |-> FALSE, HasIRQ |-> TRUE, HasNMI |-> TRUE, HasReady |-> FALSE]

\* ------------------------------------------------------------------------
\* Construction
\* ------------------------------------------------------------------------

EmptyMem == [a \in {} |-> 0]

\* The bytes of seq stored from address base on
Bytes(base, seq) == [a \in base..(base + Len(seq) - 1) |-> seq[a - base + 1]]

\* A zero-filled RAM after the host has copied content into it
Image(content) == [a \in {x \in DOMAIN content : content[x] # BusFill} |-> content[a]]

\* New: the CPU created for a model on the memory mem
New(mem) ==
    Reset([reg |-> [PC |-> 0, S |-> 0, P |-> 0, A |-> 0, X |-> 0, Y |-> 0],
           bus |-> mem, ram |-> EmptyMem, interrupt |-> None, cycles |-> 0,
           halted |-> FALSE, addressMode |-> "Implied", notReady |-> FALSE])

\* What a call that is not a Step records
Event(op, arg) ==
    [op |-> op, arg |-> arg, ret |-> 0, stalled |-> FALSE, serviced |-> None,
     reg1 |-> reg, cycles1 |-> cycles, statusI |-> -1, wordI |-> -1,
     invoked |-> FALSE, vetoed |-> FALSE, pc |-> reg.PC, byte |-> -1,
     addr |-> 0, pageCrossed |-> FALSE, statusX |-> -1,
     reg0 |-> reg, cycles0 |-> cycles, interrupt0 |-> interrupt, requested0 |-> requested]

SetCpu(d) ==
    /\ reg' = d.reg
    /\ bus' = d.bus
    /\ ram' = d.ram
    /\ interrupt' = d.interrupt
    /\ cycles' = d.cycles
    /\ halted' = d.halted
    /\ addressMode' = d.addressMode
    /\ notReady' = d.notReady
    /\ UNCHANGED <<mapper, banks>>

\* The state after New(m, mem), with no monitor attached, once the host has
\* written the registers r through Registers()
PreparedCpu(m, mem, r) ==
    /\ model = m
    /\ monitor = FALSE
    /\ requested = {}
    /\ LET d == New(mem)
       IN  /\ reg = r
           /\ bus = d.bus
           /\ ram = d.ram
           /\ interrupt = d.interrupt
           /\ cycles = d.cycles
           /\ halted = d.halted
           /\ addressMode = d.addressMode
           /\ notReady = d.notReady
    /\ last = [op |-> "New", arg |-> FALSE, ret |-> 0, stalled |-> FALSE,
               serviced |-> None, reg1 |-> reg, cycles1 |-> 0, statusI |-> -1,
               wordI |-> -1, invoked |-> FALSE, vetoed |-> FALSE,
               pc |-> reg.PC, byte |-> -1, addr |-> 0, pageCrossed |-> FALSE,
               statusX |-> -1, reg0 |-> reg, cycles0 |-> 0, interrupt0 |-> None,
               requested0 |-> {}]
    /\ origin = reg

\* Beside the prepared CPU the host holds a NewMapper(0xff) with nothing
\* mapped and two blank memories
Prepared(m, mem, r) ==
    /\ PreparedCpu(m, mem, r)
    /\ mapper = [Zero |-> 255, mapped |-> <<>>]
    /\ banks = [r |-> [fill |-> 170, mem |-> EmptyMem],
                s |-> [fill |-> 85, mem |-> EmptyMem]]

\* The state after New(m, mem), with no monitor attached
Created(m, mem) ==
    /\ model = m
    /\ Prepared(m, mem, New(mem).reg)

\* ------------------------------------------------------------------------
\* The calls a host makes on the CPU
\* ------------------------------------------------------------------------

CallIRQ ==
    /\ SetCpu(RequestIRQ(Cpu))
    /\ requested' = IF model.HasIRQ THEN requested \cup {IRQ} ELSE requested
    /\ last' = Event("IRQ", FALSE)
    /\ UNCHANGED <<model, monitor, origin>>

CallNMI ==
    /\ SetCpu(RequestNMI(Cpu))
    /\ requested' = IF model.HasNMI THEN requested \cup {NMI} ELSE requested
    /\ last' = Event("NMI", FALSE)
    /\ UNCHANGED <<model, monitor, origin>>

CallReset ==
    /\ SetCpu(Reset(Cpu))
    /\ requested' = {}
    /\ last' = Event("Reset", FALSE)
    /\ UNCHANGED <<model, monitor, origin>>

CallReady ==
    \E on \in BOOLEAN :
        /\ SetCpu(Ready(Cpu, on))
        /\ last' = Event("Ready", on)
        /\ UNCHANGED <<model, monitor, origin, requested>>

CallAttach ==
    \E m \in BOOLEAN :
        /\ monitor' = m
        /\ last' = Event("Attach", m)
        /\ UNCHANGED <<model, origin, requested>>
        /\ UNCHANGED <<cpuVars, mapper, banks>>

\* Step: proceed is the answer of the monitor's BeforeExecute, which is only
\* asked when a monitor is attached
CallStep ==
    /\ cycles < MaxCycles
    /\ \E proceed \in (IF monitor THEN BOOLEAN ELSE {TRUE}) :
          \E r \in {Step(Cpu, monitor, proceed)} :
              /\ SetCpu(r.cpu)
              /\ requested' = IF r.stalled THEN requested ELSE {}
              /\ last' = [op |-> "Step", arg |-> proceed, ret |-> r.ret,
                          stalled |-> r.stalled, serviced |-> r.serviced,
                          reg1 |-> r.reg1, cycles1 |-> r.cycles1,
                          statusI |-> r.statusI, wordI |-> r.wordI, invoked |-> r.invoked,
                          vetoed |-> r.vetoed, pc |-> r.pc, byte |-> r.byte,
                          addr |-> r.addr, pageCrossed |-> r.pageCrossed,
                          statusX |-> r.statusX, reg0 |-> reg, cycles0 |-> cycles,
                          interrupt0 |-> interrupt, requested0 |-> requested,
                          raw |-> r.raw]
              /\ UNCHANGED <<model, monitor, origin>>

\* ------------------------------------------------------------------------
\* The driver specification: a CPU of one of the catalog's models on a RAM
\* holding a small program, driven by any interleaving of the host's calls.
\* ------------------------------------------------------------------------

DriverModels == {MOS6502, MOS6505, MOS6507, MOS6510}

DriverProgram ==
    Image(Bytes(512, <<88,          \* 0200 CLI
                       169, 0,      \* 0201 LDA #$00
                       72,          \* 0203 PHA
                       40,          \* 0204 PLP
                       8,           \* 0205 PHP
                       0, 0,        \* 0206 BRK
                       108, 255, 16 \* 0208 JMP ($10FF)
                     >>)
       @@ Bytes(768, <<64>>)        \* 0300 RTI   (NMI handler)
       @@ Bytes(784, <<104, 64>>)   \* 0310 PLA, RTI  (IRQ/BRK handler)
       @@ Bytes(4096, <<80>>)       \* 1000
       @@ Bytes(4351, <<0, 64>>)    \* 10FF, 1100
       @@ Bytes(16384, <<2>>)       \* 4000 HLT
       @@ Bytes(20480, <<2>>)       \* 5000 HLT
       @@ Bytes(NMIVector, <<0, 3, 0, 2, 16, 3>>))

Init == \E m \in DriverModels : Created(m, DriverProgram)

Next ==
    \/ CallStep
    \/ CallIRQ
    \/ CallNMI
    \/ CallReset
    \/ CallReady
    \/ CallAttach

Spec == Init /\ [][Next]_vars

\* ------------------------------------------------------------------------
\* Properties of the driver
\* ------------------------------------------------------------------------

\* The little-endian word a vector holds
VectorWord(v) == Fetch(Cpu, v) + 256 * Fetch(Cpu, v + 1)

\* C2: when NMI() and IRQ() were both requested since the last executing
\* Step, in either order, the next Step with RDY high services the NMI: it
\* continues from the vector at 0xFFFA.
C2_NmiBeforeIrq ==
    (last.op = "Step" /\ ~last.stalled /\ last.requested0 = {IRQ, NMI})
        => (last.serviced = NMI /\ last.reg1.PC = VectorWord(NMIVector))

\* C3: a Step that the monitor vetoes returns 0 and leaves the whole CPU as
\* it was: registers, memory, cycle counter, halted flag and interrupt latch,
\* also when an interrupt was latched.
C3_VetoChangesNothing ==
    [][(last'.op = "Step" /\ last'.vetoed)
          => (last'.ret = 0 /\ UNCHANGED cpuVars)]_vars

\* C4: without host writes to P, bit 5 (U) of P is set in every reachable
\* state, and every status byte pushed by an interrupt service, PHP or BRK
\* has bit 5 set.
C4_UnusedAlwaysSet ==
    /\ And(reg.P, U) = U
    /\ last.statusI # -1 => And(last.statusI, U) = U
    /\ last.statusX # -1 => And(last.statusX, U) = U

\* C4 witness: a PLP has just pulled a byte whose bit 5 is clear, after an
\* interrupt service or a PHP pushed a status byte earlier in the run.
C4_Witness ==
    /\ last.op = "Step"
    /\ ~last.vetoed
    /\ last.byte = 40
    /\ And(Fetch(Cpu, Or(256, reg.S)), U) = 0
    /\ And(reg.P, U) = U

\* C5: bit 4 (B) of the live P register is clear in every state reachable
\* from Reset.
C5_BreakNeverInLiveP == And(reg.P, B) = 0

\* C6: an IRQ service pushes the PC word, then a status byte with bit 4 (B)
\* clear, sets I, continues from the vector at 0xFFFE and adds 7 cycles.
C6_IrqService ==
    (last.op = "Step" /\ last.serviced = IRQ)
        => /\ And(last.statusI, B) = 0
           /\ last.wordI = last.reg0.PC
           /\ last.reg1.S = u8(last.reg0.S - 3)
           /\ And(last.reg1.P, I) = I
           /\ last.reg1.PC = VectorWord(IRQVector)
           /\ last.cycles1 = last.cycles0 + 7

\* C8: IRQ() on a model without IRQ, NMI() on a model without NMI and
\* Ready() on a model without RDY change nothing of the CPU; a latched
\* interrupt stays latched.
C8_MissingCapabilityIgnored ==
    [][((last'.op = "IRQ" /\ ~model.HasIRQ)
          \/ (last'.op = "NMI" /\ ~model.HasNMI)
          \/ (last'.op = "Ready" /\ ~model.HasReady))
          => UNCHANGED <<cpuVars, monitor>>]_vars

\* C8 witness: IRQ() was called on a model without IRQ while an NMI was
\* latched, and the NMI is still latched.
C8_Witness ==
    /\ last.op = "IRQ"
    /\ ~model.HasIRQ
    /\ last.interrupt0 = NMI
    /\ interrupt = NMI

\* C9: Reset loads PC from the word at 0xFFFC, sets S to 0xFD and P to 0x34,
\* clears the latch, halted and notReady, and leaves A, X, Y, the cycle
\* counter and memory alone; a Step with no request since the Reset services
\* no interrupt.
C9_Reset ==
    [][/\ last'.op = "Reset"
          => /\ reg'.PC = VectorWord(ResetVector)
             /\ reg'.S = 253
             /\ reg'.P = 52
             /\ interrupt' = None
             /\ ~halted'
             /\ ~notReady'
             /\ reg'.A = reg.A /\ reg'.X = reg.X /\ reg'.Y = reg.Y
             /\ UNCHANGED <<cycles, bus, ram>>
       /\ (last'.op = "Step" /\ requested = {}) => last'.serviced = None]_vars

\* C9 witness: Reset was called with an interrupt latched, cycles spent and
\* registers changed by the program.
C9_Witness ==
    /\ last.op = "Reset"
    /\ last.interrupt0 # None
    /\ last.reg0.S # 253
    /\ last.reg0.P # 52
    /\ cycles > 0
    /\ interrupt = None

\* C10: with RDY low a Step returns 0, invokes no monitor and changes
\* nothing; Ready leaves the latch alone; and the first Step with RDY high
\* services the interrupt that is latched.
C10_ReadyLow ==
    [][/\ (last'.op = "Step" /\ notReady)
          => (last'.ret = 0 /\ ~last'.invoked /\ UNCHANGED <<cpuVars, monitor>>)
       /\ last'.op = "Ready" => interrupt' = interrupt
       /\ (last'.op = "Step" /\ ~notReady /\ interrupt # None)
          => /\ last'.serviced = interrupt
             /\ last'.reg1.PC =
                  VectorWord(IF interrupt = NMI THEN NMIVector ELSE IRQVector)]_vars

\* C10 witness: a Step was made with RDY low, a monitor attached and an
\* interrupt latched, and the interrupt is still latched.
C10_Witness ==
    /\ last.op = "Step"
    /\ last.stalled
    /\ notReady
    /\ monitor
    /\ interrupt # None

\* ------------------------------------------------------------------------
\* JMP indirect: a 6502 whose RAM holds JMP (base) at 0x0200 for several
\* pointers base and several bytes at base, base + 1 and base & 0xFF00.
\* ------------------------------------------------------------------------

JmpPointers == {4351, 4224, 255, 65535, 4096}

JmpProgram(base, lo, hi, hb) ==
    Image((base :> lo) @@ (u16(base + 1) :> hi) @@ (And(base, 65280) :> hb)
          @@ Bytes(512, <<108, base % 256, base \div 256>>)
          @@ Bytes(ResetVector, <<0, 2>>))

InitJmp ==
    \E base \in JmpPointers, lo \in {0, 52, 255}, hi \in {64, 65}, hb \in {80, 81} :
        Created(MOS6502, JmpProgram(base, lo, hi, hb))

SpecJmp == InitJmp /\ [][CallStep]_vars

\* C1: after JMP (base) the low byte of PC is fetch(base); the high byte is
\* fetch(base & 0xFF00) when the low byte of base is 0xFF and fetch(base + 1)
\* otherwise.
C1_JmpIndirectPageBug ==
    (last.op = "Step" /\ ~last.vetoed /\ last.byte = 108)
        => LET base == Fetch(Cpu, u16(last.pc + 1)) + 256 * Fetch(Cpu, u16(last.pc + 2))
           IN  /\ reg.PC % 256 = Fetch(Cpu, base)
               /\ reg.PC \div 256 = IF base % 256 = 255
                                    THEN Fetch(Cpu, And(base, 65280))
                                    ELSE Fetch(Cpu, u16(base + 1))

\* ------------------------------------------------------------------------
\* Status on the stack: a 6502 about to run PHP PLP, PHA PLP or PHA RTI at
\* 0x0200, with the registers the host wrote.
\* ------------------------------------------------------------------------

StackPointers == {0, 1, 253, 255}

\* The program, the P and the A of each case: PHP PLP under every P, and
\* PHA PLP and PHA RTI under every A
StackCases ==
    ({<<8, 40, 2>>} \X (0..255) \X {0})
        \cup ({<<72, 40, 2>>, <<72, 64, 2>>} \X {36, 52} \X (0..255))

InitStack ==
    \E case \in StackCases, s \in StackPointers :
        Prepared(MOS6502,
                 Image(Bytes(512, case[1]) @@ Bytes(0, <<2>>)
                       @@ Bytes(ResetVector, <<0, 2>>)),
                 [PC |-> 512, S |-> s, P |-> case[2], A |-> case[3], X |-> 0, Y |-> 0])

SpecStack == InitStack /\ [][CallStep]_vars

\* C7: PHP followed at once by PLP restores S and leaves P equal to
\* (P_before & 0xEF) | 0x20, for every P and S; PLP and RTI load P as
\* (pulled & 0xEF) | 0x20, so bit 4 is clear and bit 5 set afterwards.
C7_PhpPlpRti ==
    /\ (last.op = "Step" /\ last.byte = 40 /\ last.pc = 513 /\ Fetch(Cpu, 512) = 8)
          => /\ reg.S = origin.S
             /\ reg.P = Or(And(origin.P, 239), 32)
    /\ (last.op = "Step" /\ last.byte \in {40, 64})
          => /\ reg.P = Or(And(Fetch(Cpu, Or(256, u8(last.reg0.S + 1))), 239), 32)
             /\ And(reg.P, B) = 0
             /\ And(reg.P, U) = U

\* C7 witness: PLP has run right after PHP from S = 0x00, where the push
\* wrapped, with B set and U clear in the P the host wrote.
C7_Witness ==
    /\ last.op = "Step"
    /\ last.byte = 40
    /\ last.pc = 513
    /\ Fetch(Cpu, 512) = 8
    /\ origin.S = 0
    /\ And(origin.P, B) = B
    /\ And(origin.P, U) = 0
    /\ reg.S = 0

\* ------------------------------------------------------------------------
\* HLT: a CPU of a catalog model reset onto one of the HLT opcodes at 0x0700,
\* with RTI as NMI and IRQ handler, driven by any interleaving of the host's
\* calls.
\* ------------------------------------------------------------------------

InitHlt ==
    \E m \in DriverModels, h \in {b \in 0..255 : opcodeOf(b).Mnemonic = "HLT"} :
        Created(m, Image(Bytes(1792, <<h>>)
                         @@ Bytes(768, <<64>>)
                         @@ Bytes(NMIVector, <<0, 3, 0, 7, 0, 3>>)))

SpecHlt == InitHlt /\ [][Next]_vars

\* C11: a Step that executes HLT leaves PC at the HLT byte, sets halted and
\* returns 0; and every Step made while halted, whatever IRQ, NMI or Ready
\* calls came in between, returns 0 and leaves PC and halted as they were.
C11_HltTraps ==
    [][/\ (last'.op = "Step" /\ ~last'.stalled /\ ~last'.vetoed
             /\ opcodeOf(last'.byte).Mnemonic = "HLT")
          => (reg'.PC = last'.pc /\ halted' /\ last'.ret = 0)
       /\ (last'.op = "Step" /\ halted)
          => (last'.ret = 0 /\ reg'.PC = reg.PC /\ halted')]_vars

\* ------------------------------------------------------------------------
\* One instruction: a 6502 about to run any of the 256 opcode bytes, at a PC
\* in the middle or at the end of the address space, with the registers the
\* host wrote.
\* ------------------------------------------------------------------------

InitOpcode ==
    \E b \in 0..255, p \in {512, 65534, 65535}, o \in {5, 251},
       f \in {36, 231}, s \in StackPointers :
        Prepared(MOS6502,
                 Image((p :> b) @@ (u16(p + 1) :> o) @@ (u16(p + 2) :> 3)),
                 [PC |-> p, S |-> s, P |-> f, A |-> 15, X |-> 1, Y |-> 2])

SpecOpcode == InitOpcode /\ [][CallStep]_vars

\* C12: a Step with no interrupt and no veto on an opcode that is not a
\* taken branch, JMP, JSR, RTS, RTI, BRK or HLT leaves PC at PC_before plus
\* the size of the opcode's table entry, modulo 65536; a branch that is not
\* taken advances PC by 2.
C12_PcAdvancesBySize ==
    (last.op = "Step" /\ ~last.stalled /\ ~last.vetoed /\ last.serviced = None)
        => LET o == opcodeOf(last.byte)
               m == o.Mnemonic
               set(f) == And(last.reg0.P, f) = f
               taken == \/ m = "BCC" /\ ~set(C)
                        \/ m = "BCS" /\ set(C)
                        \/ m = "BNE" /\ ~set(Z)
                        \/ m = "BEQ" /\ set(Z)
                        \/ m = "BPL" /\ ~set(N)
                        \/ m = "BMI" /\ set(N)
                        \/ m = "BVC" /\ ~set(V)
                        \/ m = "BVS" /\ set(V)
           IN  /\ (m \notin {"JMP", "JSR", "RTS", "RTI", "BRK", "HLT"} /\ ~taken)
                     => reg.PC = u16(last.reg0.PC + o.Size)
               /\ (m \in {"BCC", "BCS", "BNE", "BEQ", "BPL", "BMI", "BVC", "BVS"}
                     /\ ~taken)
                     => reg.PC = u16(last.reg0.PC + 2)

\* C12 witness: a three-byte instruction has run at 0xFFFE and PC wrapped
\* to 0x0001.
C12_Witness ==
    /\ last.op = "Step"
    /\ last.reg0.PC = 65534
    /\ opcodeOf(last.byte).Size = 3
    /\ opcodeOf(last.byte).Mnemonic = "STA"
    /\ reg.PC = 1

\* ------------------------------------------------------------------------
\* Arithmetic: a 6502 (with BCD) or a Ricoh 2A03 (without) about to run ADC
\* or SBC immediate, or on the 2A03 RRA or ISC on zero page 0x10, followed
\* by HLT, for every A, the operands below and every C and D.
\* ------------------------------------------------------------------------

InitAlu ==
    \E a \in 0..255,
       m \in {0, 1, 5, 6, 9, 10, 15, 16, 39, 80, 102, 127, 128, 153, 154, 240, 255},
       f \in {36, 37, 44, 45},
       k \in {<<MOS6502, 105, FALSE>>, <<MOS6502, 233, FALSE>>,
              <<Ricoh2A03, 105, FALSE>>, <<Ricoh2A03, 233, FALSE>>,
              <<Ricoh2A03, 103, TRUE>>, <<Ricoh2A03, 231, TRUE>>} :
        Prepared(k[1],
                 Image(IF k[3] THEN Bytes(512, <<k[2], 16, 2>>) @@ (16 :> m)
                                ELSE Bytes(512, <<k[2], m, 2>>)),
                 [PC |-> 512, S |-> 253, P |-> f, A |-> a, X |-> 0, Y |-> 0])

SpecAlu == InitAlu /\ [][CallStep]_vars

\* C13: ADC with D clear, or on a model without BCD, leaves
\* R = (A + M + C) mod 256 in A, C = (A + M + C > 0xFF),
\* V = ((A xor R) and (M xor R) and 0x80) # 0, Z = (R = 0), N = bit 7 of R.
C13_BinaryAdc ==
    [][(last'.op = "Step" /\ ~last'.stalled /\ opcodeOf(last'.byte).Mnemonic = "ADC"
          /\ (And(reg.P, D) = 0 \/ ~model.HasBCD))
        => LET a == reg.A
               m == Fetch(Cpu, last'.addr)
               sum == a + m + And(reg.P, C)
               r == sum % 256
           IN  /\ reg'.A = r
               /\ (And(reg'.P, C) = C) = (sum > 255)
               /\ (And(reg'.P, V) = V) = (And(And(Xor(a, r), Xor(m, r)), 128) # 0)
               /\ (And(reg'.P, Z) = Z) = (r = 0)
               /\ (And(reg'.P, N) = N) = (r \div 128 = 1)]_vars

\* C13 witness: ADC has added 0x50 to 0x50 with C clear in binary mode and
\* left A = 0xA0 with N and V set, Z and C clear.
C13_Witness ==
    /\ last.op = "Step"
    /\ last.byte = 105
    /\ last.reg0.A = 80
    /\ And(last.reg0.P, C + D) = 0
    /\ Fetch(Cpu, 513) = 80
    /\ reg.A = 160
    /\ And(reg.P, N + V + Z + C) = N + V

\* C14: ADC with D set on a model with BCD sets N, V and Z as binary ADC
\* does, from the binary result low8(A + M + C) before the decimal
\* adjustment.
C14_DecimalAdcFlags ==
    [][(last'.op = "Step" /\ ~last'.stalled /\ opcodeOf(last'.byte).Mnemonic = "ADC"
          /\ And(reg.P, D) = D /\ model.HasBCD)
        => LET a == reg.A
               m == Fetch(Cpu, last'.addr)
               r == (a + m + And(reg.P, C)) % 256
           IN  /\ (And(reg'.P, N) = N) = (r \div 128 = 1)
               /\ (And(reg'.P, V) = V) = (And(And(Xor(a, r), Xor(m, r)), 128) # 0)
               /\ (And(reg'.P, Z) = Z) = (r = 0)]_vars

\* C15: ADC with D set on a model with BCD, on packed BCD A and M, leaves
\* the packed BCD of (decimal(A) + decimal(M) + C) mod 100 in A and sets C exactly
\* when decimal(A) + decimal(M) + C >= 100.
C15_DecimalAdcResult ==
    [][(last'.op = "Step" /\ ~last'.stalled /\ opcodeOf(last'.byte).Mnemonic = "ADC"
          /\ And(reg.P, D) = D /\ model.HasBCD
          /\ reg.A % 16 <= 9 /\ reg.A \div 16 <= 9
          /\ Fetch(Cpu, last'.addr) % 16 <= 9 /\ Fetch(Cpu, last'.addr) \div 16 <= 9)
        => LET decimal(x) == 10 * (x \div 16) + (x % 16)
               total == decimal(reg.A) + decimal(Fetch(Cpu, last'.addr)) + And(reg.P, C)
           IN  /\ reg'.A = 16 * ((total % 100) \div 10) + (total % 10)
               /\ (And(reg'.P, C) = C) = (total >= 100)]_vars

\* C15 witness: ADC has added 0x27 and the carry to 0x15 in decimal mode and
\* left A = 0x43 with C clear.
C15_Witness ==
    /\ last.op = "Step"
    /\ last.byte = 105
    /\ model.HasBCD
    /\ last.reg0.A = 21
    /\ And(last.reg0.P, C + D) = C + D
    /\ Fetch(Cpu, 513) = 39
    /\ reg.A = 67
    /\ And(reg.P, C) = 0

\* C16: SBC with D clear, or on a model without BCD, leaves
\* R = (A - M - (1 - C)) mod 256 in A, sets C exactly when
\* A - M - (1 - C) >= 0, V = ((A xor M) and 0x80) # 0 and
\* ((A xor R) and 0x80) # 0, Z = (R = 0), N = bit 7 of R.
C16_BinarySbc ==
    [][(last'.op = "Step" /\ ~last'.stalled /\ opcodeOf(last'.byte).Mnemonic = "SBC"
          /\ (And(reg.P, D) = 0 \/ ~model.HasBCD))
        => LET a == reg.A
               m == Fetch(Cpu, last'.addr)
               diff == a - m - (1 - And(reg.P, C))
               r == diff % 256
           IN  /\ reg'.A = r
               /\ (And(reg'.P, C) = C) = (diff >= 0)
               /\ (And(reg'.P, V) = V)
                    = (And(Xor(a, m), 128) # 0 /\ And(Xor(a, r), 128) # 0)
               /\ (And(reg'.P, Z) = Z) = (r = 0)
               /\ (And(reg'.P, N) = N) = (r \div 128 = 1)]_vars

\* C16 witness: SBC has subtracted 0x80 from 0x7F with C set in binary mode:
\* the borrow cleared C and the signed underflow set V.
C16_Witness ==
    /\ last.op = "Step"
    /\ last.byte = 233
    /\ last.reg0.A = 127
    /\ And(last.reg0.P, C + D) = C
    /\ Fetch(Cpu, 513) = 128
    /\ reg.A = 255
    /\ And(reg.P, N + V + Z + C) = N + V

\* C17: SBC with D set on a model with BCD sets N, V, Z and C as binary SBC
\* does for the same A, M and C.
C17_DecimalSbcFlags ==
    [][(last'.op = "Step" /\ ~last'.stalled /\ opcodeOf(last'.byte).Mnemonic = "SBC"
          /\ And(reg.P, D) = D /\ model.HasBCD)
        => LET a == reg.A
               m == Fetch(Cpu, last'.addr)
               diff == a - m - (1 - And(reg.P, C))
               r == diff % 256
           IN  /\ (And(reg'.P, C) = C) = (diff >= 0)
               /\ (And(reg'.P, V) = V)
                    = (And(Xor(a, m), 128) # 0 /\ And(Xor(a, r), 128) # 0)
               /\ (And(reg'.P, Z) = Z) = (r = 0)
               /\ (And(reg'.P, N) = N) = (r \div 128 = 1)]_vars

\* C18: on a model without BCD, an ADC, SBC, RRA or ISC leaves the same A
\* and the same N, V, Z, C whether D is set or clear: what the instruction
\* leaves equals what it leaves from the same CPU with D clear and from the
\* same CPU with D set.
C18_DecimalFlagIgnored ==
    [][(last'.op = "Step" /\ ~last'.stalled /\ ~model.HasBCD
          /\ opcodeOf(last'.byte).Mnemonic \in {"ADC", "SBC", "RRA", "ISC"})
        => \A binary \in {Step([Cpu EXCEPT !.reg.P = And(@, 255 - D)], FALSE, FALSE).cpu},
              decimal \in {Step([Cpu EXCEPT !.reg.P = Or(@, D)], FALSE, FALSE).cpu} :
              /\ reg'.A = binary.reg.A
              /\ reg'.A = decimal.reg.A
              /\ And(reg'.P, N + V + Z + C) = And(binary.reg.P, N + V + Z + C)
              /\ And(reg'.P, N + V + Z + C) = And(decimal.reg.P, N + V + Z + C)
              /\ And(reg'.P, D) = And(reg.P, D)]_vars

\* C18 witness: a 2A03 with D set has run RRA on 0x0A with A = 0x09 and C
\* clear and left the binary sum 0x0E in A.
C18_Witness ==
    /\ last.op = "Step"
    /\ last.byte = 103
    /\ ~model.HasBCD
    /\ last.reg0.A = 9
    /\ And(last.reg0.P, C + D) = D
    /\ Fetch(Cpu, 16) = 5
    /\ reg.A = 14
    /\ And(reg.P, D) = D

\* ------------------------------------------------------------------------
\* Calls and the stack: a 6502 on a RAM whose stack page holds a different
\* byte at each of its first and last eight addresses, with JSR $0400, PHA, PLA, PHP, PLP, BRK from address
\* p on, RTS at 0x0400 and RTI at 0x0500 as interrupt handler. The host
\* starts the CPU at the JSR with any S, or at one of the other instructions
\* with S near the ends of the stack page, and requests interrupts between
\* the Steps.
\* ------------------------------------------------------------------------

InitCall ==
    \E p \in {512, 766, 65533} :
        \E e \in {p, u16(p + 3), u16(p + 4), u16(p + 6), u16(p + 7), 1024, 1280} :
        \E s \in IF e = p THEN 0..255 ELSE {0, 1, 2, 253, 254, 255} :
            Prepared(MOS6502,
                     Image(Bytes(256, <<255, 254, 253, 252, 251, 250, 249, 248>>)
                           @@ Bytes(504, <<7, 6, 5, 4, 3, 2, 1, 8>>)
                           @@ Bytes(1024, <<96>>)
                           @@ Bytes(1280, <<64>>)
                           @@ [a \in {u16(p + i) : i \in 0..7}
                                 |-> <<32, 0, 4, 72, 104, 8, 40, 0>>[((a - p) % 65536) + 1]]
                           @@ Bytes(NMIVector, <<0, 5, 0, 2, 0, 5>>)),
                     [PC |-> e, S |-> s, P |-> 36, A |-> 165, X |-> 0, Y |-> 0])

SpecCall == InitCall /\ [][CallStep \/ CallIRQ \/ CallNMI]_vars

\* C19: every stack access targets 0x0100 | S. A push writes at 0x0100 | S
\* and then decrements S modulo 256, a pull increments S modulo 256 and then
\* reads 0x0100 | S; PHA, PHP, JSR, BRK and an interrupt service change
\* memory at the pushed addresses only, and PLA, PLP, RTS, RTI change no
\* memory and load what lies at the pulled addresses.
C19_StackDiscipline ==
    [][(last'.op = "Step" /\ ~last'.stalled)
        => LET m == opcodeOf(last'.byte).Mnemonic
               down(i) == 256 + ((reg.S - i) % 256)
               up(i) == 256 + ((reg.S + i) % 256)
               Was(a) == MemFetch(bus, BusFill, a)
               At(a) == MemFetch(bus', BusFill, a)
               Same(written) ==
                   \A a \in (DOMAIN bus \cup DOMAIN bus') \ written : Was(a) = At(a)
               ret == u16(last'.pc + 2)
               status == Or(Or(reg.P, B), U)
           IN  /\ (last'.serviced = None /\ m = "PHA")
                     => /\ Same({down(0)})
                        /\ At(down(0)) = reg.A
                        /\ reg'.S = (reg.S - 1) % 256
               /\ (last'.serviced = None /\ m = "PHP")
                     => /\ Same({down(0)})
                        /\ At(down(0)) = status
                        /\ reg'.S = (reg.S - 1) % 256
               /\ (last'.serviced = None /\ m = "JSR")
                     => /\ Same({down(0), down(1)})
                        /\ At(down(0)) = ret \div 256
                        /\ At(down(1)) = ret % 256
                        /\ reg'.S = (reg.S - 2) % 256
               /\ (last'.serviced = None /\ m = "BRK")
                     => /\ Same({down(0), down(1), down(2)})
                        /\ At(down(0)) = ret \div 256
                        /\ At(down(1)) = ret % 256
                        /\ At(down(2)) = status
                        /\ reg'.S = (reg.S - 3) % 256
               /\ (last'.serviced = None /\ m = "PLA")
                     => /\ bus' = bus
                        /\ reg'.A = Was(up(1))
                        /\ reg'.S = (reg.S + 1) % 256
               /\ (last'.serviced = None /\ m = "PLP")
                     => /\ bus' = bus
                        /\ reg'.P = Or(And(Was(up(1)), 239), 32)
                        /\ reg'.S = (reg.S + 1) % 256
               /\ (last'.serviced = None /\ m = "RTS")
                     => /\ bus' = bus
                        /\ reg'.PC = u16(Was(up(1)) + 256 * Was(up(2)) + 1)
                        /\ reg'.S = (reg.S + 2) % 256
               /\ (last'.serviced = None /\ m = "RTI")
                     => /\ bus' = bus
                        /\ reg'.P = Or(And(Was(up(1)), 239), 32)
                        /\ reg'.PC = Was(up(2)) + 256 * Was(up(3))
                        /\ reg'.S = (reg.S + 3) % 256
               /\ (last'.serviced # None /\ m \in {"RTI", "RTS"})
                     => /\ Same({down(0), down(1), down(2)})
                        /\ At(down(0)) = reg.PC \div 256
                        /\ At(down(1)) = reg.PC % 256
                        /\ At(down(2)) = reg.P
                        /\ last'.reg1.S = (reg.S - 3) % 256]_vars

\* C19 witness: an interrupt was serviced with S = 0x01, so that its three
\* pushes wrapped from 0x0100 to 0x01FF, and the handler's RTI pulled the
\* three bytes back.
C19_Witness ==
    /\ last.op = "Step"
    /\ last.serviced = NMI
    /\ last.reg0.S = 1
    /\ last.reg1.S = 254
    /\ last.byte = 64
    /\ reg.S = 1
    /\ reg.PC = last.reg0.PC
    /\ Fetch(Cpu, 511) = last.reg0.P

\* C20: when JSR at address p is followed at once by RTS, PC is p + 3 and S
\* is what it was before the JSR; JSR pushes the high byte of p + 2 at
\* 0x0100 | S and then the low byte below it.
C20_JsrRtsRoundTrip ==
    [][/\ (last'.op = "Step" /\ last'.serviced = None /\ last'.byte = 96
             /\ last.op = "Step" /\ last.byte = 32)
          => /\ reg'.PC = u16(last.pc + 3)
             /\ reg'.S = last.reg1.S
       /\ (last'.op = "Step" /\ last'.byte = 32)
          => /\ MemFetch(bus', BusFill, 256 + last'.reg1.S) = u16(last'.pc + 2) \div 256
             /\ MemFetch(bus', BusFill, 256 + ((last'.reg1.S - 1) % 256))
                  = u16(last'.pc + 2) % 256]_vars

\* C20 witness: JSR at 0xFFFD with S = 0x00 and the RTS after it have run:
\* the pushes wrapped S to 0xFE, PC wrapped to 0x0000 and S is 0x00 again.
C20_Witness ==
    /\ last.op = "Step"
    /\ last.byte = 96
    /\ last.serviced = None
    /\ origin.PC = 65533
    /\ origin.S = 0
    /\ last.reg0.S = 254
    /\ cycles = 12
    /\ reg.PC = 0
    /\ reg.S = 0

\* ------------------------------------------------------------------------
\* Branch timing, on the one-instruction specification
\* ------------------------------------------------------------------------

\* C21: a Step on any of the eight branch opcodes returns 2 when the branch
\* is not taken, 3 when it is taken to a target on the page of the following
\* instruction and 4 when it is taken to a target on another page; a taken
\* branch leaves PC on the target.
C21_BranchTiming ==
    (last.op = "Step" /\ ~last.stalled /\ ~last.vetoed /\ last.serviced = None
        /\ opcodeOf(last.byte).Mode = "Relative")
        => LET m == opcodeOf(last.byte).Mnemonic
               set(f) == And(last.reg0.P, f) = f
               taken == \/ m = "BCC" /\ ~set(C)
                        \/ m = "BCS" /\ set(C)
                        \/ m = "BNE" /\ ~set(Z)
                        \/ m = "BEQ" /\ set(Z)
                        \/ m = "BPL" /\ ~set(N)
                        \/ m = "BMI" /\ set(N)
                        \/ m = "BVC" /\ ~set(V)
                        \/ m = "BVS" /\ set(V)
               off == Fetch(Cpu, u16(last.reg0.PC + 1))
               following == u16(last.reg0.PC + 2)
               target == (following + (IF off >= 128 THEN off - 256 ELSE off)) % 65536
               samePage == (target \div 256) = (following \div 256)
           IN  /\ m \in {"BPL", "BMI", "BVC", "BVS", "BCC", "BCS", "BNE", "BEQ"}
               /\ last.ret = (IF ~taken THEN 2 ELSE IF samePage THEN 3 ELSE 4)
               /\ cycles = last.cycles0 + last.ret
               /\ taken => reg.PC = target

\* C21 witness: BEQ, whose table entry alone carries a page cross cycle, has
\* been taken backwards from 0x0200 to 0x01FD on another page and returned 4.
C21_Witness ==
    /\ last.op = "Step"
    /\ opcodeOf(last.byte).Mnemonic = "BEQ"
    /\ last.reg0.PC = 512
    /\ reg.PC = 509
    /\ last.ret = 4

\* ------------------------------------------------------------------------
\* Addressing: a 6502 about to run any opcode of a zero page, indexed or
\* indirect mode at 0x0200, followed by HLT, with operand bytes and index
\* registers that reach both ends of the zero page and of a page, on a RAM
\* whose bytes at 0x0100 and 0x0101 differ from those at 0x0000 and 0x0001.
\* ------------------------------------------------------------------------

InitAddr ==
    \E b \in {i \in 0..255 : opcodeOf(i).Mode \in
                  {"ZeroPage", "ZeroPageX", "ZeroPageY", "AbsoluteX", "AbsoluteY",
                   "IndexedIndirect", "IndirectIndexed"}},
       o \in {128, 254, 255}, x \in {0, 1, 2}, y \in {0, 1, 2} :
        Prepared(MOS6502,
                 Image(Bytes(0, <<4, 5>>) @@ Bytes(128, <<16, 5>>)
                       @@ Bytes(254, <<254, 255, 7, 9>>)
                       @@ Bytes(512, IF opcodeOf(b).Size = 2
                                     THEN <<b, o, 2>> ELSE <<b, o, 3, 2>>)),
                 [PC |-> 512, S |-> 253, P |-> 36, A |-> 90, X |-> x, Y |-> y])

SpecAddr == InitAddr /\ [][CallStep]_vars

\* C22: a Step on an opcode of mode AbsoluteX, AbsoluteY or IndirectIndexed
\* returns the table's base cycles plus 1 when the table's page cross cycles
\* are 1 and the high byte of the un-indexed base address differs from the
\* high byte of base plus index, and exactly the base cycles otherwise.
C22_PageCrossPenalty ==
    [][(last'.op = "Step" /\ ~last'.stalled /\ ~last'.vetoed
            /\ last'.serviced = None
            /\ opcodeOf(last'.byte).Mode \in {"AbsoluteX", "AbsoluteY", "IndirectIndexed"})
        => LET o == opcodeOf(last'.byte)
               b1 == Fetch(Cpu, u16(reg.PC + 1))
               b2 == Fetch(Cpu, u16(reg.PC + 2))
               base == IF o.Mode = "IndirectIndexed"
                       THEN Fetch(Cpu, b1) + 256 * Fetch(Cpu, (b1 + 1) % 256)
                       ELSE b1 + 256 * b2
               index == IF o.Mode = "AbsoluteX" THEN reg.X ELSE reg.Y
               crossed == (base \div 256) # (((base + index) % 65536) \div 256)
           IN  /\ o.PageCrossCycles \in {0, 1}
               /\ last'.ret = o.Cycles
                                + (IF o.PageCrossCycles = 1 /\ crossed THEN 1 ELSE 0)
               /\ cycles' = cycles + last'.ret]_vars

\* C22 witness: LDA (zp),Y with the pointer 0xFFFE and Y = 2 has read from
\* 0x0000 and returned 5 + 1 cycles.
C22_Witness ==
    /\ last.op = "Step"
    /\ last.byte = 177
    /\ last.reg0.Y = 2
    /\ last.addr = 0
    /\ last.ret = 6

\* C23: zero page pointer arithmetic wraps at 8 bits. The effective address
\* of zp,X and zp,Y is (operand + index) mod 256; (zp,X) reads its address
\* from pointer = (operand + X) mod 256 and (pointer + 1) mod 256; (zp),Y
\* reads its base from operand and (operand + 1) mod 256.
C23_ZeroPageWraps ==
    [][(last'.op = "Step" /\ ~last'.stalled /\ ~last'.vetoed
            /\ last'.serviced = None
            /\ opcodeOf(last'.byte).Mode \in
                   {"ZeroPage", "ZeroPageX", "ZeroPageY", "IndexedIndirect", "IndirectIndexed"})
        => LET mode == opcodeOf(last'.byte).Mode
               operand == Fetch(Cpu, u16(reg.PC + 1))
               pointer == (operand + reg.X) % 256
               word(a) == Fetch(Cpu, a) + 256 * Fetch(Cpu, (a + 1) % 256)
           IN  last'.addr =
                 CASE mode = "ZeroPage" -> operand
                   [] mode = "ZeroPageX" -> (operand + reg.X) % 256
                   [] mode = "ZeroPageY" -> (operand + reg.Y) % 256
                   [] mode = "IndexedIndirect" -> word(pointer)
                   [] mode = "IndirectIndexed" -> (word(operand) + reg.Y) % 65536]_vars

\* C23 witness: LDA (zp,X) with operand 0xFE and X = 1 has taken its pointer
\* from 0x00FF and 0x0000 (address 0x04FF, not 0x07FF from 0x0100) and loaded
\* the byte there.
C23_Witness ==
    /\ last.op = "Step"
    /\ last.byte = 161
    /\ last.reg0.X = 1
    /\ Fetch(Cpu, 513) = 254
    /\ Fetch(Cpu, 256) = 7
    /\ last.addr = 1279
    /\ reg.A = Fetch(Cpu, 1279)

\* ------------------------------------------------------------------------
\* memory.Mapper: bank switched memory. A range is a record of its first
\* address addr, its last address stop and the name Memory of the memory
\* behind it; two ranges have the same memory when the names are equal.
\* Each call leaves in last what it was given (memory, at), the position
\* bank of the range it was dispatched to, and in ret the byte fetched or
\* 1 for true and 0 for false.
\* ------------------------------------------------------------------------

MaxMapped == 3

MaxStores == 1

\* memoryRanges.Less on the list r; i and j count from 1
Less(r, i, j) ==
    IF r[j].addr >= r[i].addr /\ r[j].stop <= r[i].stop
    THEN FALSE
    ELSE r[i].addr < r[j].addr

\* sort.Stable on a list of at most 20 elements is one insertion sort: the
\* element at i sinks while it is Less than its left neighbour
RECURSIVE insertionSort(_, _, _)
insertionSort(r, i, j) ==
    IF i > Len(r) THEN r
    ELSE IF j > 1 /\ Less(r, j, j - 1)
         THEN insertionSort([r EXCEPT ![j] = r[j - 1], ![j - 1] = r[j]], i, j - 1)
         ELSE insertionSort(r, i + 1, i + 1)

Sort(r) == insertionSort(r, 2, 2)

\* sort.Search(l, addr <= r[i].stop): binary search between i and j, which
\* count from 0
RECURSIVE Search(_, _, _, _)
Search(r, addr, i, j) ==
    IF i < j
    THEN IF ~(addr <= r[((i + j) \div 2) + 1].stop)
         THEN Search(r, addr, ((i + j) \div 2) + 1, j)
         ELSE Search(r, addr, i, (i + j) \div 2)
    ELSE i

\* memoryRanges.Bank: the position in r, from 1, of the range the address
\* is dispatched to, or 0 for nil
Bank(r, addr) ==
    Only({IF i < Len(r) /\ addr >= r[i + 1].addr /\ addr <= r[i + 1].stop
          THEN i + 1 ELSE 0 : i \in {Search(r, addr, 0, Len(r))}})

MapperMap ==
    /\ Len(mapper.mapped) < MaxMapped
    /\ \E rg \in {<<1, 6>>, <<2, 3>>, <<2, 5>>, <<5, 7>>}, m \in DOMAIN banks :
          /\ mapper' = [mapper EXCEPT !.mapped =
                           Sort(Append(@, [Memory |-> m, addr |-> rg[1], stop |-> rg[2]]))]
          /\ last' = [memory |-> m] @@ Event("Map", FALSE)
    /\ UNCHANGED <<model, monitor, origin, requested, cpuVars, banks>>

\* Unmap that removes every range of the memory
MapperUnmap_RemovesAll ==
    /\ \E m \in DOMAIN banks :
          \E hits \in {{i \in 1..Len(mapper.mapped) : mapper.mapped[i].Memory = m}} :
              /\ mapper' = [mapper EXCEPT !.mapped =
                               SelectSeq(@, LAMBDA x : x.Memory # m)]
              /\ last' = [memory |-> m] @@
                         [Event("Unmap", FALSE) EXCEPT !.ret = IF hits # {} THEN 1 ELSE 0]
    /\ UNCHANGED <<model, monitor, origin, requested, cpuVars, banks>>

MapperUnmap ==
    /\ \E m \in DOMAIN banks :
          \E hits \in {{i \in 1..Len(mapper.mapped) : mapper.mapped[i].Memory = m}} :
              /\ mapper' = IF hits = {} THEN mapper
                           ELSE [mapper EXCEPT !.mapped =
                                    [k \in 1..(Len(@) - 1) |->
                                        IF \A i \in hits : k < i THEN @[k] ELSE @[k + 1]]]
              /\ last' = [memory |-> m] @@
                         [Event("Unmap", FALSE) EXCEPT !.ret = IF hits # {} THEN 1 ELSE 0]
    /\ UNCHANGED <<model, monitor, origin, requested, cpuVars, banks>>

MapperReset ==
    /\ mapper' = [mapper EXCEPT !.mapped = <<>>]
    /\ last' = Event("MapperReset", FALSE)
    /\ UNCHANGED <<model, monitor, origin, requested, cpuVars, banks>>

MapperFetch ==
    /\ \E addr \in 0..7 :
          \E k \in {Bank(mapper.mapped, addr)} :
              last' = [at |-> addr, bank |-> k] @@
                      [Event("Fetch", FALSE) EXCEPT !.ret =
                          IF k # 0
                          THEN MemFetch(banks[mapper.mapped[k].Memory].mem,
                                        banks[mapper.mapped[k].Memory].fill, addr)
                          ELSE mapper.Zero]
    /\ UNCHANGED <<model, monitor, origin, requested, cpuVars, banks, mapper>>

MapperStore ==
    /\ Cardinality(DOMAIN banks.r.mem) + Cardinality(DOMAIN banks.s.mem) < MaxStores
    /\ \E addr \in {0, 2, 5}, value \in {1} :
          \E k \in {Bank(mapper.mapped, addr)} :
              /\ banks' = IF k # 0
                          THEN [banks EXCEPT ![mapper.mapped[k].Memory].mem =
                                   MemStore(@, banks[mapper.mapped[k].Memory].fill,
                                            addr, value)]
                          ELSE banks
              /\ last' = [at |-> addr, bank |-> k] @@ Event("Store", FALSE)
    /\ UNCHANGED <<model, monitor, origin, requested, cpuVars, mapper>>

SpecMapper ==
    Created(MOS6502, EmptyMem)
        /\ [][MapperMap \/ MapperUnmap \/ MapperReset \/ MapperFetch \/ MapperStore]_vars

\* C24: whenever one mapped range is entirely contained in another, the
\* contained range precedes its container in the mapper's list.
C24_NarrowerFirst ==
    \A i, j \in 1..Len(mapper.mapped) :
        LET n == mapper.mapped[i]
            w == mapper.mapped[j]
        IN  (n.addr >= w.addr /\ n.stop <= w.stop
                /\ (n.addr # w.addr \/ n.stop # w.stop))
                => i < j

\* C25: a Fetch or Store of an address goes to a mapped range that contains
\* the address whenever one exists, and Fetch returns the Zero byte only
\* when none exists.
C25_DispatchToContaining ==
    (last.op \in {"Fetch", "Store"})
        => \A containing \in {{i \in 1..Len(mapper.mapped) :
                                  /\ mapper.mapped[i].addr <= last.at
                                  /\ last.at <= mapper.mapped[i].stop}} :
              IF containing = {}
              THEN last.bank = 0 /\ (last.op = "Fetch" => last.ret = mapper.Zero)
              ELSE last.bank \in containing

\* C26: Unmap(m) removes the first range of the list whose memory is m,
\* keeps the others in their order and returns true; it returns false and
\* changes nothing when no range has that memory. Reset empties the list, and
\* a Fetch on an empty list returns the Zero byte at every address.
C26_UnmapFirst ==
    [][/\ (last'.op = "Unmap")
            => \A hits \in {{i \in 1..Len(mapper.mapped) :
                                mapper.mapped[i].Memory = last'.memory}} :
                  IF hits = {}
                  THEN last'.ret = 0 /\ mapper' = mapper
                  ELSE /\ last'.ret = 1
                       /\ mapper'.Zero = mapper.Zero
                       /\ \E first \in hits :
                             /\ \A i \in hits : first <= i
                             /\ mapper'.mapped =
                                   SubSeq(mapper.mapped, 1, first - 1)
                                   \o SubSeq(mapper.mapped, first + 1, Len(mapper.mapped))
       /\ (last'.op = "MapperReset")
            => (mapper'.mapped = <<>> /\ \A a \in 0..7 : Bank(mapper'.mapped, a) = 0)
       /\ (last'.op = "Fetch" /\ mapper.mapped = <<>>)
            => last'.ret = 255]_vars

\* C26 witness: Unmap has returned true for a memory mapped more than once,
\* and a range of that memory is still mapped.
C26_Witness ==
    /\ last.op = "Unmap"
    /\ last.ret = 1
    /\ Len(mapper.mapped) = 2
    /\ mapper.mapped[1].Memory # last.memory
    /\ mapper.mapped[2].Memory = last.memory

\* ------------------------------------------------------------------------
\* memory.ReaderAt: bulk reads over a memory, here the RAM the CPU was
\* made with.
\* ------------------------------------------------------------------------

MaxRead == 3

CallReadAt ==
    /\ \E len \in 0..MaxRead, off \in {0, 256, 65532, 65533, 65534, 65535, 65536, 131071} :
          \E r \in {ReadAt(bus, BusFill, len, off)} :
              last' = [at |-> off, size |-> len, err |-> r.err, p |-> r.p] @@
                      [Event("ReadAt", FALSE) EXCEPT !.ret = r.n]
    /\ UNCHANGED <<model, monitor, origin, requested, cpuVars, mapper, banks>>

SpecRead ==
    (\E x \in {1, 17, 33, 49} :
        Created(MOS6502, Image(Bytes(256, <<x, 2>>) @@ Bytes(65532, <<x, 3, 5, 7>>))))
        /\ [][CallReadAt]_vars

\* C27: a read of len bytes at off that lies inside the address space
\* (off + len <= 0x10000) returns len and no error with the buffer holding
\* fetch(off) .. fetch(off + len - 1); a read that would cross past 0xFFFF
\* copies the bytes up to 0xFFFF and returns that count with EOF; an offset
\* above 0xFFFF returns 0 and ErrShortBuffer.
C27_BulkRead ==
    (last.op = "ReadAt")
        => \A n \in {IF last.at > 65535 THEN 0
                     ELSE IF last.at + last.size <= 65536 THEN last.size
                     ELSE 65536 - last.at} :
              /\ last.ret = n
              /\ last.err = (IF last.at > 65535 THEN "ErrShortBuffer"
                             ELSE IF last.at + last.size <= 65536 THEN "nil"
                             ELSE "EOF")
              /\ \A i \in 1..n : last.p[i] = Fetch(Cpu, last.at + i - 1)

\* ------------------------------------------------------------------------
\* Internal RAM: a 6502 whose Model has InternalMemory n (0, 128 or 512),
\* on an external RAM holding 0x11 at every address the program touches,
\* about to run a store, a read-modify-write or a load on an address on
\* either side of n, then a load of the same address, then HLT; or PHA, PLA,
\* HLT. The program sits at 0x0300, or at 0x0010 where with n > 0 the
\* opcode is fetched from the internal RAM.
\* ------------------------------------------------------------------------

InitRam ==
    \E n \in {0, 128, 512}, p \in {768, 16},
       a \in {127, 128, 511, 512}, b \in {141, 238, 173, 72} :
        Prepared([MOS6502 EXCEPT !.InternalMemory = n],
                 Image(Bytes(127, <<17, 17>>) @@ Bytes(509, <<17, 17, 17, 17>>)
                       @@ Bytes(p, IF b = 72 THEN <<72, 104, 2>>
                                   ELSE <<b, a % 256, a \div 256, 173,
                                          a % 256, a \div 256, 2>>)),
                 [PC |-> p, S |-> 253, P |-> 36, A |-> 90, X |-> 0, Y |-> 0])

\* The host writes a byte through the CPU's own Store
CallStore ==
    /\ \E addr \in {127, 128, 768}, value \in {17} :
          /\ SetCpu(Store(Cpu, addr, value))
          /\ last' = [at |-> addr, value |-> value] @@ Event("Store", FALSE)
    /\ UNCHANGED <<model, monitor, origin, requested>>

\* The host writes a word with StoreWord on the CPU
CallStoreWord ==
    /\ \E addr \in {127, 768}, value \in {4660} :
          /\ SetCpu(StoreWord(Cpu, addr, value))
          /\ last' = [at |-> addr, value |-> value] @@ Event("StoreWord", FALSE)
    /\ UNCHANGED <<model, monitor, origin, requested>>

SpecRam == InitRam /\ [][CallStep \/ CallStore \/ CallStoreWord]_vars

\* C28 (for the Steps of the program and for the host's Store and StoreWord
\* on the CPU): with InternalMemory n > 0 every access below n is served by the
\* internal RAM, which reads 0xFF until written, and leaves the external
\* memory alone, and every access at n or above goes to the external memory
\* and leaves the internal RAM alone; with n = 0 every access goes to the
\* external memory.
C28_InternalRamRouting ==
    [][/\ (last'.op = "Step")
        => LET n == model.InternalMemory
               internal(a) == n > 0 /\ a < n
               read(a) == IF internal(a) THEN MemFetch(ram, RamFill, a)
                          ELSE MemFetch(bus, BusFill, a)
               m == opcodeOf(last'.byte).Mnemonic
               top == 256 + reg.S
           IN  /\ last'.byte = read(reg.PC)
               /\ \A a \in (DOMAIN bus \cup DOMAIN bus') :
                     MemFetch(bus', BusFill, a) # MemFetch(bus, BusFill, a)
                        => ~internal(a)
               /\ \A a \in (DOMAIN ram \cup DOMAIN ram') :
                     MemFetch(ram', RamFill, a) # MemFetch(ram, RamFill, a)
                        => internal(a)
               /\ (m = "LDA") => reg'.A = read(last'.addr)
               /\ (m = "STA")
                     => IF internal(last'.addr)
                        THEN MemFetch(ram', RamFill, last'.addr) = reg.A /\ bus' = bus
                        ELSE MemFetch(bus', BusFill, last'.addr) = reg.A /\ ram' = ram
               /\ (m = "INC")
                     => IF internal(last'.addr)
                        THEN MemFetch(ram', RamFill, last'.addr)
                                = (read(last'.addr) + 1) % 256 /\ bus' = bus
                        ELSE MemFetch(bus', BusFill, last'.addr)
                                = (read(last'.addr) + 1) % 256 /\ ram' = ram
               /\ (m = "PHA")
                     => IF internal(top)
                        THEN MemFetch(ram', RamFill, top) = reg.A /\ bus' = bus
                        ELSE MemFetch(bus', BusFill, top) = reg.A /\ ram' = ram
               /\ (m = "PLA") => reg'.A = read(256 + ((reg.S + 1) % 256))
               /\ (n = 0) => ram' = ram
       /\ (last'.op \in {"Store", "StoreWord"})
            => \A size \in {model.InternalMemory} :
               \A w \in {IF last'.op = "Store"
                          THEN (last'.at :> last'.value)
                          ELSE (last'.at :> last'.value % 256)
                               @@ (last'.at + 1 :> last'.value \div 256)} :
                  /\ \A a \in DOMAIN w :
                        IF size > 0 /\ a < size
                        THEN /\ MemFetch(ram', RamFill, a) = w[a]
                             /\ MemFetch(bus', BusFill, a) = MemFetch(bus, BusFill, a)
                        ELSE /\ MemFetch(bus', BusFill, a) = w[a]
                             /\ MemFetch(ram', RamFill, a) = MemFetch(ram, RamFill, a)
                  /\ \A a \in (DOMAIN bus \cup DOMAIN bus' \cup DOMAIN ram \cup DOMAIN ram')
                              \ DOMAIN w :
                        /\ MemFetch(bus', BusFill, a) = MemFetch(bus, BusFill, a)
                        /\ MemFetch(ram', RamFill, a) = MemFetch(ram, RamFill, a)]_vars

\* C28 witness: with 128 bytes of internal RAM, INC 0x007F has turned the
\* 0xFF of the untouched internal RAM into 0x00 and the following LDA 0x007F
\* has loaded it, while the external memory still holds 0x11 there.
C28_Witness ==
    /\ model.InternalMemory = 128
    /\ last.op = "Step"
    /\ last.byte = 173
    /\ last.addr = 127
    /\ reg.A = 0
    /\ MemFetch(ram, RamFill, 127) = 0
    /\ MemFetch(bus, BusFill, 127) = 17

\* ------------------------------------------------------------------------
\* Cycle accounting, on the driver specification
\* ------------------------------------------------------------------------

\* C29: the value Step returns equals the increase of the CPU's cycle
\* counter during the call, the 7 cycles of an interrupt serviced at the
\* start of the step included.
C29_StepReturnsCyclesSpent ==
    [][(last'.op = "Step") => last'.ret = cycles' - cycles]_vars

\* ------------------------------------------------------------------------
\* Run: the host prepares a CPU (Ready, Attach, NMI) and calls Run,
\* which blocks the host until it returns. While last.op is "Run" the call
\* is inside its loop; "Return" records the value it returned. The RAM
\* holds NOP, HLT at the reset vector and RTI as the NMI handler.
\* ------------------------------------------------------------------------

\* Run, up to its loop: cycles and halted are cleared
RunStart ==
    /\ last.op # "Run"
    /\ SetCpu([Cpu EXCEPT !.cycles = 0, !.halted = FALSE])
    /\ last' = Event("Run", FALSE)
    /\ UNCHANGED <<model, monitor, origin, requested>>

\* One turn of Run's loop: a Step while halted is not set
RunLoop ==
    /\ last.op = "Run"
    /\ ~halted
    /\ cycles < MaxCycles
    /\ \E proceed \in (IF monitor THEN BOOLEAN ELSE {TRUE}) :
          \E r \in {Step(Cpu, monitor, proceed)} :
              /\ SetCpu(r.cpu)
              /\ requested' = IF r.stalled THEN requested ELSE {}
              /\ last' = [Event("Run", proceed) EXCEPT !.ret = r.ret]
    /\ UNCHANGED <<model, monitor, origin>>

\* Run leaves its loop and returns the cycle counter
RunReturn ==
    /\ last.op = "Run"
    /\ halted
    /\ last' = [Event("Return", FALSE) EXCEPT !.ret = cycles]
    /\ UNCHANGED <<model, monitor, origin, requested, cpuVars, mapper, banks>>

InitRun ==
    \E m \in {MOS6502, MOS6510} :
        Created(m, Image(Bytes(512, <<234, 2>>) @@ Bytes(768, <<64>>)
                         @@ Bytes(NMIVector, <<0, 3, 0, 2, 0, 3>>)))

NextRun ==
    \/ last.op # "Run" /\ (CallReady \/ CallAttach \/ CallNMI)
    \/ RunStart
    \/ RunLoop
    \/ RunReturn

\* Run is not interrupted: its loop keeps turning, and it returns once the
\* loop is left
SpecRun ==
    InitRun /\ [][NextRun]_vars /\ WF_vars(RunLoop) /\ WF_vars(RunReturn)

\* C30: whatever the RDY state and the monitor attached, a Run on a program
\* that reaches HLT eventually returns, and Run returns only with halted
\* set.
C30_RunTerminates ==
    /\ (last.op = "Run") ~> (last.op = "Return")
    /\ [](last.op = "Return" => halted)

\* ------------------------------------------------------------------------
\* FetchWordBug, called by a host on a CPU whose RAM holds a page base byte
\* at 0x0200, a word at 0x0210 and bytes around the end of the page
\* ------------------------------------------------------------------------

CallFetchWordBug ==
    /\ \E addr \in {512, 528, 766, 767, 65279, 65535} :
          last' = [at |-> addr] @@
                  [Event("FetchWordBug", FALSE) EXCEPT !.ret = FetchWordBug(Cpu, addr)]
    /\ UNCHANGED <<model, monitor, origin, requested, cpuVars, mapper, banks>>

SpecWord ==
    (\E z \in {0, 3, 64}, lo \in {0, 52}, hi \in {17, 18}, e \in {1, 2} :
        Created(MOS6502, Image(Bytes(0, <<7>>) @@ Bytes(512, <<z>>) @@ Bytes(528, <<lo, hi>>)
                               @@ Bytes(766, <<e, 3, 86>>) @@ Bytes(65280, <<9>>)
                               @@ Bytes(65535, <<5>>))))
        /\ [][CallFetchWordBug]_vars

\* C31: FetchWordBug(addr) is the word with low byte fetch(addr) and high
\* byte fetch((addr & 0xFF00) | ((addr + 1) & 0xFF)), and it equals
\* FetchWord(addr) when the low byte of addr is not 0xFF.
C31_FetchWordBug ==
    (last.op = "FetchWordBug")
        => /\ last.ret = Fetch(Cpu, last.at)
                          + 256 * Fetch(Cpu, And(last.at, 65280) + u8(last.at + 1))
           /\ (last.at % 256 # 255 => last.ret = FetchWord(Cpu, last.at))

\* ------------------------------------------------------------------------
\* The memory package's buses. A memory value is a record with its kind:
\* Blank (value), RAM and ROM (size, the zero byte it was made with, and
\* the bytes that differ from it), Masked (Mask and the Memory it wraps).
\* An index past the end of a RAM or ROM slice panics.
\* ------------------------------------------------------------------------

\* What a Fetch that panics returns, and the memory of a Store that panics
Panic == -1

Panicked == [kind |-> "panic"]

\* Masked.Store that passes the address on unmasked
MemoryStore_Unmasked(b, addr, value) ==
    IF b.kind = "Masked"
    THEN [b EXCEPT !.Memory = [@ EXCEPT !.mem = MemStore(@, b.Memory.zero, addr, value)]]
    ELSE IF b.kind = "RAM" THEN [b EXCEPT !.mem = MemStore(@, b.zero, addr, value)]
    ELSE b

\* Fetch of Blank, RAM, ROM and Masked
RECURSIVE MemoryFetch(_, _)
MemoryFetch(b, addr) ==
    CASE b.kind = "Blank" -> b.value
      [] b.kind \in {"RAM", "ROM"} ->
            IF addr < b.size THEN MemFetch(b.mem, b.zero, addr) ELSE Panic
      [] b.kind = "Masked" -> MemoryFetch(b.Memory, And(addr, b.Mask))

\* Store of Blank, RAM, ROM and Masked: the memory afterwards
RECURSIVE MemoryStore(_, _, _)
MemoryStore(b, addr, value) ==
    CASE b.kind \in {"Blank", "ROM"} -> b
      [] b.kind = "RAM" ->
            IF addr < b.size THEN [b EXCEPT !.mem = MemStore(@, b.zero, addr, value)]
            ELSE Panicked
      [] b.kind = "Masked" ->
            Only({IF inner.kind = "panic" THEN Panicked ELSE [b EXCEPT !.Memory = inner]
                  : inner \in {MemoryStore(b.Memory, And(addr, b.Mask), value)}})

\* The addresses a host uses on the buses
BusAddrs == {1, 8193, 65535}

BusFetch ==
    /\ \E k \in DOMAIN banks, addr \in BusAddrs :
          \E v \in {MemoryFetch(banks[k], addr)} :
              /\ v # Panic
              /\ last' = [bus |-> k, at |-> addr, value |-> 0] @@
                         [Event("Fetch", FALSE) EXCEPT !.ret = v]
    /\ UNCHANGED <<model, monitor, origin, requested, cpuVars, mapper, banks>>

BusStore ==
    /\ \E k \in DOMAIN banks, addr \in BusAddrs, value \in {17, 34} :
          \E b \in {MemoryStore(banks[k], addr, value)} :
              /\ b.kind # "panic"
              /\ banks' = [banks EXCEPT ![k] = b]
              /\ last' = [bus |-> k, at |-> addr, value |-> value] @@
                         Event("Store", FALSE)
    /\ UNCHANGED <<model, monitor, origin, requested, cpuVars, mapper>>

\* RAM.Reset: every byte of the RAM becomes zero
RAMReset(b, zero) == [b EXCEPT !.zero = zero, !.mem = EmptyMem]

\* The host resets its RAM
BusReset ==
    /\ \E zero \in {51} :
          /\ banks' = [banks EXCEPT !.ram = RAMReset(@, zero)]
          /\ last' = [bus |-> "ram", at |-> 0, value |-> zero] @@ Event("Reset", FALSE)
    /\ UNCHANGED <<model, monitor, origin, requested, cpuVars, mapper>>

\* The ROM image of InitBus
RomImage == Image(Bytes(1, <<76>>) @@ Bytes(8193, <<96>>))

\* A host holding Blank(0x2a), New(0x10000), a 32 kB ROM and a Masked over
\* a RAM that is larger than its mask
InitBus ==
    /\ PreparedCpu(MOS6502, EmptyMem, New(EmptyMem).reg)
    /\ mapper = [Zero |-> 255, mapped |-> <<>>]
    /\ \E mask \in {8191, 1} :
          banks = [blank |-> [kind |-> "Blank", value |-> 42],
                   ram |-> [kind |-> "RAM", size |-> 65536, zero |-> 0, mem |-> EmptyMem],
                   rom |-> [kind |-> "ROM", size |-> 32768, zero |-> 0, mem |-> RomImage],
                   masked |-> [kind |-> "Masked", Mask |-> mask,
                               Memory |-> [kind |-> "RAM", size |-> 8192, zero |-> 85,
                                           mem |-> EmptyMem]]]

SpecBus == InitBus /\ [][BusFetch \/ BusStore \/ BusReset]_vars

\* C32: whatever was stored, a ROM returns its original bytes and Blank(b)
\* returns b; a Store to a on a RAM is what Fetch(a) then returns, and
\* changes no other address; a Store to a on a Masked is what Fetch then
\* returns at every address b with (b & mask) = (a & mask), and changes no
\* other address.
C32_BuiltInBuses ==
    /\ [](\A a \in BusAddrs :
            /\ MemoryFetch(banks.blank, a) = 42
            /\ MemoryFetch(banks.rom, a) \in {Panic, MemFetch(RomImage, 0, a)}
            /\ (last.op = "Fetch" => last.ret = MemoryFetch(banks[last.bus], last.at)))
    /\ [][(last'.op = "Store" /\ last'.bus \in {"ram", "masked"})
             => \A b \in BusAddrs :
                   MemoryFetch(banks'[last'.bus], b) =
                       IF last'.bus = "ram"
                       THEN (IF b = last'.at THEN last'.value
                             ELSE MemoryFetch(banks.ram, b))
                       ELSE (IF And(b, banks.masked.Mask) = And(last'.at, banks.masked.Mask)
                             THEN last'.value
                             ELSE MemoryFetch(banks.masked, b))]_vars

\* A Store to 0x2001 on the Masked with mask 0x1fff has been made, and
\* Fetch(1) returns the value stored
C32_Witness ==
    /\ banks.masked.Mask = 8191
    /\ last.op = "Store" /\ last.bus = "masked" /\ last.at = 8193 /\ last.value = 34
    /\ MemoryFetch(banks.masked, 1) = 34
    /\ MemoryFetch(banks.masked, 8193) = 34
    /\ MemoryFetch(banks.masked, 65535) = 85

\* C33: on a model with IRQ, the Step with RDY high that follows IRQ()
\* services the interrupt whether I is set or clear: it pushes the PC word
\* and then P, and continues from the vector at 0xFFFE.
C33_IrqNotGatedByI ==
    [][(last'.op = "Step" /\ ~notReady
            /\ ((last.op = "IRQ" /\ model.HasIRQ) \/ interrupt = IRQ))
         => /\ last'.serviced = IRQ
            /\ last'.wordI = reg.PC
            /\ last'.statusI = reg.P
            /\ last'.reg1.S = u8(reg.S - 3)
            /\ last'.reg1.PC = VectorWord(IRQVector)
            /\ interrupt' = None]_vars

\* An IRQ was serviced by a Step that began with I set: the status pushed
\* has I set and PC went to the handler at 0x0310
C33_Witness ==
    /\ last.op = "Step" /\ last.serviced = IRQ
    /\ And(last.reg0.P, I) = I
    /\ last.statusI = last.reg0.P
    /\ last.reg1.PC = 784

\* ------------------------------------------------------------------------
\* BRK and RTI: a 6502 on a zero-filled RAM (every byte a BRK) with RTI at
\* 0x0010 and the IRQ vector pointing there, started at 0x0200 or at 0xFFFF
\* with any P and with S anywhere near the ends of the stack page
\* ------------------------------------------------------------------------

InitBrk ==
    \E p \in {512, 65535}, s \in {0, 1, 2, 128, 253, 254, 255}, f \in 0..255 :
        Prepared(MOS6502, Image(Bytes(16, <<64>>) @@ Bytes(IRQVector, <<16, 0>>)),
                 [PC |-> p, S |-> s, P |-> f, A |-> 0, X |-> 0, Y |-> 0])

SpecBrk == InitBrk /\ [][CallStep]_vars

\* C34: BRK at p pushes the word p + 2, high byte first, then P | 0x10,
\* then sets I and loads PC from the word at 0xFFFE; an RTI executed next
\* returns with PC = p + 2, S as before the BRK and
\* P = (P before the BRK & 0xEF) | 0x20.
C34_BrkRti ==
    [][/\ (last'.op = "Step" /\ last'.byte = 0)
            => /\ MemFetch(bus', BusFill, 256 + reg.S) = u16(reg.PC + 2) \div 256
               /\ MemFetch(bus', BusFill, 256 + u8(reg.S - 1)) = u8(reg.PC + 2)
               /\ MemFetch(bus', BusFill, 256 + u8(reg.S - 2)) = Or(reg.P, B)
               /\ And(MemFetch(bus', BusFill, 256 + u8(reg.S - 2)), I) = And(reg.P, I)
               /\ reg'.S = u8(reg.S - 3)
               /\ reg'.P = Or(reg.P, I)
               /\ reg'.PC = VectorWord(IRQVector)
       /\ (last.op = "Step" /\ last.byte = 0 /\ last'.op = "Step" /\ last'.byte = 64)
            => /\ reg'.PC = u16(last.pc + 2)
               /\ reg'.S = last.reg0.S
               /\ reg'.P = Or(And(last.reg0.P, 239), U)]_vars

\* The RTI that follows the BRK at 0xFFFF, taken with S = 0 and P = 0xDF,
\* has returned to 0x0001 with S = 0 and P = 0xEF
C34_Witness ==
    /\ last.op = "Step" /\ last.byte = 64
    /\ origin = [PC |-> 65535, S |-> 0, P |-> 223, A |-> 0, X |-> 0, Y |-> 0]
    /\ reg = [PC |-> 1, S |-> 0, P |-> 239, A |-> 0, X |-> 0, Y |-> 0]
    /\ cycles = 13

\* ------------------------------------------------------------------------
\* fast.ReadAt: bulk reads through the CPU, which copies from the internal
\* RAM when the offset lies in it and reads the remainder from the external
\* memory through memory.ReaderAt
\* ------------------------------------------------------------------------

CallCpuReadAt ==
    /\ \E len \in 0..MaxRead, offs \in {-1, 126, 127, 128, 65533, 65534, 65535, 65536} :
          \E r \in {fast_ReadAt(Cpu, len, offs)} :
              last' = [at |-> offs, size |-> len, err |-> r.err, p |-> r.p] @@
                      [Event("CpuReadAt", FALSE) EXCEPT !.ret = r.n]
    /\ UNCHANGED <<model, monitor, origin, requested, cpuVars, mapper, banks>>

\* A 6502 with or without 128 bytes of internal RAM, on a RAM that holds
\* bytes other than zero wherever the host reads
SpecCpuRead ==
    (\E n \in {0, 128}, x \in {1, 17, 33} :
        Created([MOS6502 EXCEPT !.InternalMemory = n],
                Image(Bytes(126, <<x, 2, 3, 4, 5, 6>>) @@ Bytes(65533, <<x, 8, 9>>))))
        /\ [][CallCpuReadAt]_vars

\* C35: for an offset in 0..0xFFFF the count returned is the number of
\* leading buffer bytes that hold fetch(off), fetch(off + 1), ..., also
\* when the read is cut at the end of the address space. (The buffer starts
\* as zeros and no byte read here is zero.)
C35_CpuReadAtCount ==
    (last.op = "CpuReadAt" /\ last.at \in 0..65535)
        => last.ret = Cardinality({k \in 1..last.size :
                          \A i \in 1..k : /\ last.at + i - 1 <= 65535
                                          /\ last.p[i] = Fetch(Cpu, last.at + i - 1)})

\* ------------------------------------------------------------------------
\* The monitor's Instruction: a 6502 about to run NOP, LDA # or LDA abs
\* (1, 2 and 3 bytes) at a PC in the middle or within 3 bytes of the end of
\* the address space, followed by HLT bytes, with LDA abs, HLT as NMI
\* handler at 0x0300. The host attaches a monitor, requests NMIs and steps.
\* No byte the CPU reads as instruction is zero, and only the stack page is
\* written.
\* ------------------------------------------------------------------------

InitRaw ==
    \E b \in {234, 169, 173}, p \in {512, 65533, 65534, 65535} :
        Prepared(MOS6502,
                 Image((p :> b) @@ [a \in {u16(p + i) : i \in 1..3} |-> 2]
                       @@ Bytes(768, <<173, 1, 3, 2>>)
                       @@ Bytes(NMIVector, <<0, 3, 0, 2, 17, 3>>)),
                 [PC |-> p, S |-> 253, P |-> 36, A |-> 0, X |-> 0, Y |-> 0])

SpecRaw == InitRaw /\ [][CallAttach \/ CallNMI \/ CallStep]_vars

\* C36: the Instruction handed to the monitor carries in Raw the size bytes
\* fetch(PC), fetch(PC + 1), ... of the instruction about to execute, for
\* every PC, and the registers and the cycle counter as they are after the
\* interrupt service of that Step and before the instruction.
C36_MonitorRaw ==
    [][(last'.op = "Step" /\ last'.invoked)
        => /\ last'.raw = [i \in 1..opcodeOf(last'.byte).Size
                              |-> Fetch(Cpu, u16(last'.pc + i - 1))]
           /\ last'.pc = last'.reg1.PC
           /\ last'.byte = Fetch(Cpu, last'.pc)
           /\ IF interrupt = None
              THEN last'.reg1 = reg /\ last'.cycles1 = cycles
              ELSE /\ last'.reg1.PC = VectorWord(NMIVector)
                   /\ last'.reg1.S = u8(reg.S - 3)
                   /\ last'.cycles1 = cycles + 7]_vars

\* C37: an interrupt request is serviced exactly once. IRQ() or NMI() on a
\* capable model sets the latch and nothing else does; the first Step with
\* RDY high then performs the service, clears the latch and also executes
\* the first instruction of the handler; a Step with the latch clear
\* performs no service.
C37_ServicedOnce ==
    [][/\ (last'.op = "IRQ" /\ model.HasIRQ) => interrupt' = IRQ
       /\ (last'.op = "NMI" /\ model.HasNMI) => interrupt' = NMI
       /\ (interrupt' # None /\ interrupt' # interrupt) => last'.op \in {"IRQ", "NMI"}
       /\ (last'.op = "Step" /\ ~notReady /\ interrupt # None)
            => /\ last'.serviced = interrupt
               /\ last'.reg1.S = u8(reg.S - 3)
               /\ last'.reg1.PC = VectorWord(IF interrupt = NMI THEN NMIVector
                                                               ELSE IRQVector)
               /\ interrupt' = None
               /\ ~last'.vetoed
               /\ last'.pc = last'.reg1.PC
               /\ cycles' = cycles + 7 + last'.ret
       /\ (last'.op = "Step" /\ interrupt = None)
            => /\ last'.serviced = None
               /\ last'.reg1 = reg
               /\ interrupt' = None]_vars

\* ------------------------------------------------------------------------
\* Interrupt return: a 6502 on a zero-filled RAM with NOP, RTI at 0x0010,
\* the NMI vector pointing at the NOP and the IRQ vector at the RTI, about
\* to execute at 0x0200 or 0xFFFF with any N, V, U, B in P, with I set or
\* clear, and with S anywhere near the ends of the stack page. The host
\* requests interrupts between the Steps.
\* ------------------------------------------------------------------------

InitIret ==
    \E p \in {512, 65535}, s \in {0, 1, 2, 128, 255},
       f \in {16 * k + j : k \in 0..15, j \in {3, 4}} :
        Prepared(MOS6502,
                 Image(Bytes(16, <<234, 64>>) @@ Bytes(NMIVector, <<16, 0, 0, 2, 17, 0>>)),
                 [PC |-> p, S |-> s, P |-> f, A |-> 0, X |-> 0, Y |-> 0])

SpecIret == InitIret /\ [][CallIRQ \/ CallNMI \/ CallStep]_vars

\* C38: when an IRQ or NMI is serviced with the CPU about to execute at p
\* with stack pointer s and status P0, and the handler then executes RTI
\* (as its first instruction, in the Step of the service, or after a NOP,
\* in the next Step), then after the RTI PC = p, S = s and
\* P = (P0 & 0xEF) | 0x20.
C38_InterruptReturn ==
    [][/\ (last'.op = "Step" /\ last'.serviced # None /\ last'.byte = 64)
            => /\ reg'.PC = reg.PC
               /\ reg'.S = reg.S
               /\ reg'.P = Or(And(reg.P, 239), U)
       /\ (/\ last.op = "Step" /\ last.serviced # None /\ last.byte = 234
           /\ last'.op = "Step" /\ last'.serviced = None /\ last'.byte = 64)
            => /\ reg'.PC = last.reg0.PC
               /\ reg'.S = last.reg0.S
               /\ reg'.P = Or(And(last.reg0.P, 239), U)
               /\ And(reg'.P, I) = And(last.reg0.P, I)]_vars

\* The RTI of the NMI handler has returned to 0xFFFF with S = 1 and I
\* clear, as they were when the NMI was serviced (P0 = 0x53)
C38_Witness ==
    /\ last.op = "Step" /\ last.serviced = None /\ last.byte = 64
    /\ origin = [PC |-> 65535, S |-> 1, P |-> 83, A |-> 0, X |-> 0, Y |-> 0]
    /\ reg = [PC |-> 65535, S |-> 1, P |-> 99, A |-> 0, X |-> 0, Y |-> 0]
    /\ cycles = 15

\* ------------------------------------------------------------------------
\* Rotates: a 6502 about to run ROL then ROR, or ROR then ROL, on A or on
\* the RAM byte at 0x0010, then HLT, with every value v in the operand (and
\* a copy of v in A when the operand is in RAM) and C set or clear
\* ------------------------------------------------------------------------

InitRotate ==
    \E prog \in {<<42, 106, 2>>, <<106, 42, 2>>,
                 <<38, 16, 102, 16, 2>>, <<102, 16, 38, 16, 2>>},
       v \in 0..255, f \in {36, 37} :
        Prepared(MOS6502,
                 Image(Bytes(512, prog) @@ (IF Len(prog) = 5 THEN Bytes(16, <<v>>)
                                            ELSE EmptyMem)),
                 [PC |-> 512, S |-> 253, P |-> f, A |-> v, X |-> 0, Y |-> 0])

SpecRotate == InitRotate /\ [][CallStep]_vars

\* C39: ROL and ROR are inverse 9-bit rotations through C. After a ROL the
\* operand is ((v << 1) | C) & 0xFF and C is bit 7 of v; after a ROR the
\* operand is (v >> 1) | (C << 7) and C is bit 0 of v; Z and N reflect the
\* rotated value; and the second rotate of each pair restores v and C.
C39_RotateInverse ==
    [][(last'.op = "Step" /\ last'.byte \in {42, 38, 106, 102})
        => \A v \in {IF last'.byte \in {42, 106} THEN reg.A ELSE Fetch(Cpu, 16)} :
           \A c \in {reg.P % 2} :
           \A r \in {IF last'.byte \in {42, 106} THEN reg'.A
                      ELSE MemFetch(bus', BusFill, 16)} :
              /\ r = IF last'.byte \in {42, 38} THEN (2 * v + c) % 256
                                                ELSE v \div 2 + 128 * c
              /\ reg'.P % 2 = IF last'.byte \in {42, 38} THEN v \div 128 ELSE v % 2
              /\ (And(reg'.P, Z) = Z) = (r = 0)
              /\ (And(reg'.P, N) = N) = (r >= 128)
              /\ (last.op = "Step" /\ last.byte \in {42, 38, 106, 102})
                    => (r = origin.A /\ reg'.P % 2 = origin.P % 2)]_vars

\* ROL then ROR on the RAM byte 0x81 with C clear: the ROL left 0x02 with C
\* set, and the ROR has restored 0x81 with C clear
C39_Witness ==
    /\ last.op = "Step" /\ last.byte = 102
    /\ last.reg0.P % 2 = 1
    /\ origin.A = 129 /\ origin.P = 36
    /\ Fetch(Cpu, 16) = 129
    /\ reg.P % 2 = 0
    /\ Fetch(Cpu, 512) = 38
====
